---- MODULE Spec2Model ----
(***************************************************************************)
(* Model of the query-understanding and retrieval core of secs_chatbot:    *)
(* the answer cache (services/cache_service.py), the focal tool selector   *)
(* (agents/focal_agent.py), the vector store (services/vector_store.py)    *)
(* and the three orchestrators (services/chat_service.py, app.py,          *)
(* app_enhanced.py).                                                       *)
(*                                                                         *)
(* Text is a sequence of characters.  A character is a one-character       *)
(* string; a letter carrying a diacritic is written as the letter followed *)
(* by an ASCII mark ("a~" is a-tilde, "a'" a-acute, "e'" e-acute, "e^"     *)
(* e-circumflex, "i'" i-acute, "o'" o-acute, "o~" o-tilde, "u'" u-acute,   *)
(* "c," c-cedilla),                                                        *)
(* so that every character of the model is plain ASCII.                    *)
(***************************************************************************)
EXTENDS Integers, Sequences, FiniteSets, TLC

VARIABLES
    nq_text,          \* normalize_question: the input text
    nq_once,          \* normalize_question(nq_text), once computed
    nq_twice,         \* normalize_question(nq_once), once computed
    tool_question,    \* FocalAgent.pick_tool: the question
    tool_picked,      \* the name of the tool pick_tool returned
    qa_user_cache,    \* table qa_user_cache: its rows in insertion order
    qa_global_cache,  \* table qa_global_cache: its rows in insertion order
    cache_op,         \* the last call of the CacheService and what it returned
    latest_user,      \* per (user, normalized): the answer of the latest set, or None
    latest_global,    \* per normalized: the answer of the latest set, or None
    req,              \* the last chat request an orchestrator served
    documentos,       \* table documentos: its rows in insertion order (id = position)
    chunks,           \* table chunks: its rows in insertion order (id = position)
    store_op,         \* the last call on the vector store and what it returned
    clar,             \* the last call of the ClarificationAgent and what it returned
    run,              \* the pipeline of the last chat request: what its stages met
    enr,              \* the last call of an enrichment step and how it ended
    cnt,              \* the last call of CountHelper.derive_counts and what it returned
    emb,              \* the embedding settings and the saved row of embedding_metadata
    ret,              \* the retrieval step of the last chat request: its searches
    proc,             \* the calls in flight on the cache or the store, and how they ended
    hyde              \* the HyDEQueryExpander: its cache and its last expand_query

normVars == <<nq_text, nq_once, nq_twice>>
toolVars == <<tool_question, tool_picked>>
tableVars == <<qa_user_cache, qa_global_cache>>
cacheVars == <<cache_op, latest_user, latest_global>>

orchVars == <<req>>

storeVars == <<documentos, chunks, store_op>>

\* the components that keep no state of their own between calls
stageVars == <<clar, run, enr, cnt, emb>>

\* what the calls of this model's later sections hold
flightVars == <<ret, proc, hyde>>

vars ==
    <<normVars, toolVars, tableVars, cacheVars, orchVars, storeVars, stageVars, flightVars>>

\* what the steps of one component leave alone
notNorm == <<toolVars, tableVars, cacheVars, orchVars, storeVars, stageVars, flightVars>>
notTool == <<normVars, tableVars, cacheVars, orchVars, storeVars, stageVars, flightVars>>
notCache == <<normVars, toolVars, orchVars, storeVars, stageVars, flightVars>>
notOrch == <<normVars, toolVars, cacheVars, storeVars, stageVars, flightVars>>
notStore ==
    <<normVars, toolVars, tableVars, cacheVars, orchVars, stageVars, flightVars>>
notStage ==
    <<normVars, toolVars, tableVars, cacheVars, orchVars, storeVars, flightVars>>

\* Python's None where a text is expected, and "not computed yet": texts
\* that no question or answer equals.
None == <<"None">>
NotRun == <<"NotRun">>

\* Python's None where a tool name is expected
NoTool == "None"

(***************************************************************************)
(* Characters: str.lower(), NFKD decomposition with the combining marks    *)
(* removed, and the regular-expression classes \s and \w.                  *)
(***************************************************************************)
Lower(c) ==
    CASE c = "A" -> "a" [] c = "B" -> "b" [] c = "C" -> "c" [] c = "D" -> "d"
      [] c = "E" -> "e" [] c = "F" -> "f" [] c = "G" -> "g" [] c = "H" -> "h"
      [] c = "I" -> "i" [] c = "J" -> "j" [] c = "K" -> "k" [] c = "L" -> "l"
      [] c = "M" -> "m" [] c = "N" -> "n" [] c = "O" -> "o" [] c = "P" -> "p"
      [] c = "Q" -> "q" [] c = "R" -> "r" [] c = "S" -> "s" [] c = "T" -> "t"
      [] c = "U" -> "u" [] c = "V" -> "v" [] c = "W" -> "w" [] c = "X" -> "x"
      [] c = "Y" -> "y" [] c = "Z" -> "z" [] c = "E'" -> "e'"
      [] OTHER -> c

Base(c) ==
    CASE c = "a'" -> "a" [] c = "a~" -> "a" [] c = "c," -> "c" [] c = "e^" -> "e"
      [] c = "e'" -> "e" [] c = "E'" -> "E" [] c = "o'" -> "o" [] c = "o~" -> "o"
      [] c = "i'" -> "i" [] c = "u'" -> "u"
      [] OTHER -> c

IsSpace(c) == c = " "

PunctuationChars == {"?", ".", "!", ",", "-", ":", "/"}

\* \w: letters, digits and the underscore; in this model every character
\* that is neither white space nor one of PunctuationChars.
IsWord(c) == ~IsSpace(c) /\ c \notin PunctuationChars

LowerText(s) == [i \in 1..Len(s) |-> Lower(s[i])]

StripAccents(s) == [i \in 1..Len(s) |-> Base(s[i])]

RECURSIVE LStrip(_)
LStrip(s) == IF s # <<>> /\ IsSpace(Head(s)) THEN LStrip(Tail(s)) ELSE s

RECURSIVE RStrip(_)
RStrip(s) ==
    IF s # <<>> /\ IsSpace(s[Len(s)]) THEN RStrip(SubSeq(s, 1, Len(s) - 1)) ELSE s

\* str.strip()
Strip(s) == RStrip(LStrip(s))

\* re.sub(r'[^\w\s]', '', text)
RemovePunctuation(s) == SelectSeq(s, LAMBDA c : IsWord(c) \/ IsSpace(c))

\* re.sub(r'\s+', ' ', text)
RECURSIVE CollapseSpaces(_)
CollapseSpaces(s) ==
    IF s = <<>> THEN <<>>
    ELSE IF IsSpace(Head(s))
         THEN <<" ">> \o CollapseSpaces(LStrip(s))
         ELSE <<Head(s)>> \o CollapseSpaces(Tail(s))

\* `needle in text` on Python strings
Contains(text, needle) ==
    \E i \in 0..(Len(text) - Len(needle)) : SubSeq(text, i + 1, i + Len(needle)) = needle

(***************************************************************************)
(* CacheService.normalize_question                                         *)
(***************************************************************************)
normalize_question(question) ==
    CollapseSpaces(RemovePunctuation(Strip(LowerText(StripAccents(question)))))

\* "É ?", "e ?" and "e ": the first two differ in case and diacritics only,
\* the last two in punctuation only
CQ_E_acute_qmark == <<"E'", " ", "?">>
CQ_e_qmark == <<"e", " ", "?">>
CQ_e_space == <<"e", " ">>

\* the questions put to the cache
CacheQuestions == {CQ_E_acute_qmark, CQ_e_qmark, CQ_e_space}

\* normalize_question on the questions put to the cache, computed once
NormalizedTable == [q \in CacheQuestions |-> normalize_question(q)]

\* self.normalize_question(question), as the CacheService calls it
Normalized(question) ==
    IF question \in DOMAIN NormalizedTable
    THEN NormalizedTable[question]
    ELSE normalize_question(question)

(***************************************************************************)
(* CacheService.should_bypass_cache and ChatService._is_negative           *)
(***************************************************************************)
SIG_nao_encontrei_acc ==
    <<"n", "a~", "o", " ", "e", "n", "c", "o", "n", "t", "r", "e", "i">>
SIG_nao_encontrei == <<"n", "a", "o", " ", "e", "n", "c", "o", "n", "t", "r", "e", "i">>
SIG_nao_ha_base_acc == <<"n", "a~", "o", " ", "h", "a'", " ", "b", "a", "s", "e">>
SIG_nao_ha_base == <<"n", "a", "o", " ", "h", "a", " ", "b", "a", "s", "e">>
SIG_sem_base_documental ==
    <<"s", "e", "m", " ", "b", "a", "s", "e", " ", "d", "o", "c", "u", "m", "e", "n", "t",
      "a", "l">>
SIG_nao_tenho_certeza_acc ==
    <<"n", "a~", "o", " ", "t", "e", "n", "h", "o", " ", "c", "e", "r", "t", "e", "z", "a">>
SIG_nao_tenho_certeza ==
    <<"n", "a", "o", " ", "t", "e", "n", "h", "o", " ", "c", "e", "r", "t", "e", "z", "a">>
SIG_nao_ha_evidencia_acc ==
    <<"n", "a~", "o", " ", "h", "a'", " ", "e", "v", "i", "d", "e^", "n", "c", "i", "a">>
SIG_nao_ha_evidencia ==
    <<"n", "a", "o", " ", "h", "a", " ", "e", "v", "i", "d", "e", "n", "c", "i", "a">>
SIG_nao_sei_acc == <<"n", "a~", "o", " ", "s", "e", "i">>
SIG_nao_sei == <<"n", "a", "o", " ", "s", "e", "i">>
SIG_sem_informacao_acc ==
    <<"s", "e", "m", " ", "i", "n", "f", "o", "r", "m", "a", "c,", "a~", "o">>
SIG_sem_informacao ==
    <<"s", "e", "m", " ", "i", "n", "f", "o", "r", "m", "a", "c", "a", "o">>

negative_signals ==
    <<SIG_nao_encontrei_acc, SIG_nao_encontrei, SIG_nao_ha_base_acc, SIG_nao_ha_base,
      SIG_sem_base_documental, SIG_nao_tenho_certeza_acc, SIG_nao_tenho_certeza,
      SIG_nao_ha_evidencia_acc, SIG_nao_ha_evidencia, SIG_nao_sei_acc, SIG_nao_sei>>

should_bypass_cache(answer) ==
    \E i \in 1..Len(negative_signals) : Contains(LowerText(answer), negative_signals[i])

signals ==
    <<SIG_nao_encontrei_acc, SIG_nao_encontrei, SIG_nao_ha_base_acc, SIG_nao_ha_base,
      SIG_sem_base_documental, SIG_nao_tenho_certeza_acc, SIG_nao_tenho_certeza,
      SIG_sem_informacao_acc, SIG_sem_informacao>>

is_negative(answer) ==
    \E i \in 1..Len(signals) : Contains(LowerText(answer), signals[i])

(***************************************************************************)
(* FocalAgent: the TOOLS table and pick_tool                               *)
(***************************************************************************)
T_pauta == <<"p", "a", "u", "t", "a">>
T_agenda == <<"a", "g", "e", "n", "d", "a">>
T_ordem_do_dia == <<"o", "r", "d", "e", "m", " ", "d", "o", " ", "d", "i", "a">>
T_ata == <<"a", "t", "a">>
T_sessao == <<"s", "e", "s", "s", "a", "o">>
T_sessao_acc == <<"s", "e", "s", "s", "a~", "o">>
T_reuniao == <<"r", "e", "u", "n", "i", "a", "o">>
T_reuniao_acc == <<"r", "e", "u", "n", "i", "a~", "o">>
T_votacao == <<"v", "o", "t", "a", "c", "a", "o">>
T_votacao_acc == <<"v", "o", "t", "a", "c,", "a~", "o">>
T_resultado == <<"r", "e", "s", "u", "l", "t", "a", "d", "o">>
T_quorum == <<"q", "u", "o", "r", "u", "m">>
T_voto == <<"v", "o", "t", "o">>
T_aprovad == <<"a", "p", "r", "o", "v", "a", "d">>
T_participantes == <<"p", "a", "r", "t", "i", "c", "i", "p", "a", "n", "t", "e", "s">>
T_presenca == <<"p", "r", "e", "s", "e", "n", "c", "a">>
T_presenca_acc == <<"p", "r", "e", "s", "e", "n", "c,", "a">>
T_assinaturas == <<"a", "s", "s", "i", "n", "a", "t", "u", "r", "a", "s">>
T_quem_participou ==
    <<"q", "u", "e", "m", " ", "p", "a", "r", "t", "i", "c", "i", "p", "o", "u">>
T_resolucao == <<"r", "e", "s", "o", "l", "u", "c", "a", "o">>
T_resolucao_acc == <<"r", "e", "s", "o", "l", "u", "c,", "a~", "o">>
T_portaria == <<"p", "o", "r", "t", "a", "r", "i", "a">>
T_quando_foi == <<"q", "u", "a", "n", "d", "o", " ", "f", "o", "i">>
T_data_da_reuniao ==
    <<"d", "a", "t", "a", " ", "d", "a", " ", "r", "e", "u", "n", "i", "a", "o">>
T_data_da_reuniao_acc ==
    <<"d", "a", "t", "a", " ", "d", "a", " ", "r", "e", "u", "n", "i", "a~", "o">>
T_que_dia == <<"q", "u", "e", " ", "d", "i", "a">>
T_quando_ocorreu == <<"q", "u", "a", "n", "d", "o", " ", "o", "c", "o", "r", "r", "e", "u">>

TOOLS ==
    << [name |-> "pauta",
        detect_terms |-> <<T_pauta, T_agenda, T_ordem_do_dia>>],
       [name |-> "ata",
        detect_terms |-> <<T_ata, T_sessao, T_sessao_acc, T_reuniao, T_reuniao_acc>>],
       [name |-> "votacao",
        detect_terms |-> <<T_votacao, T_votacao_acc, T_resultado, T_quorum, T_voto,
                           T_aprovad>>],
       [name |-> "participantes",
        detect_terms |-> <<T_participantes, T_presenca, T_presenca_acc, T_assinaturas,
                           T_quem_participou>>],
       [name |-> "resolucao",
        detect_terms |-> <<T_resolucao, T_resolucao_acc>>],
       [name |-> "portaria",
        detect_terms |-> <<T_portaria>>],
       [name |-> "data_reuniao",
        detect_terms |-> <<T_quando_foi, T_data_da_reuniao, T_data_da_reuniao_acc,
                           T_que_dia, T_quando_ocorreu>>] >>

\* any(term in q for term in tool.detect_terms)
ToolMatches(tool, q) ==
    \E j \in 1..Len(tool.detect_terms) : Contains(q, tool.detect_terms[j])

\* the loop `for tool in self.tools` from position i on
RECURSIVE PickFrom(_, _)
PickFrom(i, q) ==
    IF i > Len(TOOLS) THEN NoTool
    ELSE IF ToolMatches(TOOLS[i], q) THEN TOOLS[i].name
    ELSE PickFrom(i + 1, q)

\* pick_tool without the lowercasing of the question
pick_tool_CaseSensitive(question) == PickFrom(1, question)

\* FocalAgent.pick_tool: the name of the tool returned, or NoTool
pick_tool(question) == PickFrom(1, LowerText(question))

(***************************************************************************)
(* CacheService: the tables qa_user_cache (UNIQUE(user, normalized)) and   *)
(* qa_global_cache (normalized UNIQUE), as sequences of rows in insertion  *)
(* order.  The columns id and created_at are written and never read; the   *)
(* rows of the model leave them out.                                       *)
(***************************************************************************)
\* SELECT answer FROM qa_user_cache WHERE user = ? AND normalized = ?; fetchone()
get_user_answer(tbl, user_id, question) ==
    LET normalized == Normalized(question)
        rows == SelectSeq(tbl, LAMBDA r : r.user = user_id /\ r.normalized = normalized)
    IN  IF rows = <<>> THEN None ELSE rows[1].answer

\* set_user_answer with a plain INSERT OR IGNORE: a conflicting row keeps its answer
set_user_answer_KeepOld(tbl, user_id, question, answer) ==
    LET normalized == Normalized(question)
    IN  IF \E i \in 1..Len(tbl) : tbl[i].user = user_id /\ tbl[i].normalized = normalized
        THEN tbl
        ELSE Append(tbl, [user |-> user_id, normalized |-> normalized,
                          question |-> question, answer |-> answer])

\* INSERT ... ON CONFLICT(user, normalized) DO UPDATE SET answer, question
set_user_answer(tbl, user_id, question, answer) ==
    LET normalized == Normalized(question)
        conflict(r) == r.user = user_id /\ r.normalized = normalized
    IN  IF \E i \in 1..Len(tbl) : conflict(tbl[i])
        THEN [i \in 1..Len(tbl) |->
                 IF conflict(tbl[i])
                 THEN [tbl[i] EXCEPT !.answer = answer, !.question = question]
                 ELSE tbl[i]]
        ELSE Append(tbl, [user |-> user_id, normalized |-> normalized,
                          question |-> question, answer |-> answer])

\* SELECT answer FROM qa_global_cache WHERE normalized = ?; fetchone()
get_global_answer(tbl, question) ==
    LET normalized == Normalized(question)
        rows == SelectSeq(tbl, LAMBDA r : r.normalized = normalized)
    IN  IF rows = <<>> THEN None ELSE rows[1].answer

\* INSERT ... ON CONFLICT(normalized) DO UPDATE SET answer, question
set_global_answer(tbl, question, answer) ==
    LET normalized == Normalized(question)
    IN  IF \E i \in 1..Len(tbl) : tbl[i].normalized = normalized
        THEN [i \in 1..Len(tbl) |->
                 IF tbl[i].normalized = normalized
                 THEN [tbl[i] EXCEPT !.answer = answer, !.question = question]
                 ELSE tbl[i]]
        ELSE Append(tbl, [normalized |-> normalized,
                          question |-> question, answer |-> answer])

\* DELETE FROM qa_user_cache WHERE user = ?
clear_user_cache(tbl, user_id) == SelectSeq(tbl, LAMBDA r : r.user # user_id)

\* DELETE FROM qa_global_cache
clear_global_cache(tbl) == <<>>

(***************************************************************************)
(* Inputs                                                                  *)
(***************************************************************************)
\* longest text handed to normalize_question
MaxLen == 4

NormAlphabet == {"a", "A", "e'", "E'", "?", " ", "_"}

RECURSIVE TextsUpTo(_, _)
TextsUpTo(alphabet, n) ==
    IF n = 0 THEN {<<>>}
    ELSE LET shorter == TextsUpTo(alphabet, n - 1)
         IN  shorter \cup {Append(t, c) : t \in shorter, c \in alphabet}

NormTexts == TextsUpTo(NormAlphabet, MaxLen)

\* most fragments a question handed to pick_tool is put together from
MaxFrags == 3

F_Qual_a == <<"Q", "u", "a", "l", " ", "a", " ">>
F_pauta == <<"p", "a", "u", "t", "a">>
F_da_proxima == <<" ", "d", "a", " ", "p", "r", "o'", "x", "i", "m", "a", " ">>
F_reuniao == <<"r", "e", "u", "n", "i", "a~", "o">>
F_qmark == <<"?">>
F_Quando_foi == <<"Q", "u", "a", "n", "d", "o", " ", "f", "o", "i">>
F_a == <<" ", "a", " ">>
F_PORTARIA == <<"P", "O", "R", "T", "A", "R", "I", "A">>
F_data == <<"d", "a", "t", "a">>
F_voto == <<"v", "o", "t", "o">>
F_Que_dia == <<"Q", "u", "e", " ", "d", "i", "a">>
F_isso == <<" ", "i", "s", "s", "o">>

Fragments ==
    {F_Qual_a, F_pauta, F_da_proxima, F_reuniao, F_qmark, F_Quando_foi, F_a,
     F_PORTARIA, F_data, F_voto, F_Que_dia, F_isso}

RECURSIVE Phrases(_)
Phrases(n) ==
    IF n = 0 THEN {<<>>}
    ELSE LET shorter == Phrases(n - 1)
         IN  shorter \cup {t \o f : t \in shorter, f \in Fragments}

\* "Qual a pauta da próxima reunião?"
Q_pauta_proxima_reuniao == F_Qual_a \o F_pauta \o F_da_proxima \o F_reuniao \o F_qmark

\* "Quando foi a reunião?"
Q_quando_foi_a_reuniao == F_Quando_foi \o F_a \o F_reuniao \o F_qmark

ToolQuestions == Phrases(MaxFrags) \cup {Q_pauta_proxima_reuniao, Q_quando_foi_a_reuniao}

Users == {"alice", "bob"}

\* most rows of one cache table
MaxRows == 2

\* "Na~o sei." (with a-tilde)
AnsNaoSei == <<"N", "a~", "o", " ", "s", "e", "i", ".">>

\* "Sim."
AnsSim == <<"S", "i", "m", ".">>

CacheAnswers == {AnsSim, AnsNaoSei}

NormKeys == {normalize_question(q) : q \in CacheQuestions}

NoOp == [op |-> "none"]

\* answers of the language model, and the fixed texts of the orchestrators
AnsNotFound ==
    <<"N", "a~", "o", " ", "e", "n", "c", "o", "n", "t", "r", "e", "i", " ", "i", "n", "f",
      "o", "r", "m", "a", "c,", "o~", "e", "s", " ", "s", "o", "b", "r", "e", " ", "i",
      "s", "s", "o", ".">>
AnsSemInfo ==
    <<"S", "e", "m", " ", "i", "n", "f", "o", "r", "m", "a", "c,", "a~", "o", ".">>
TXT_clarification ==
    <<"P", "o", "r", " ", "f", "a", "v", "o", "r", ",", " ", "s", "e", "j", "a", " ", "m",
      "a", "i", "s", " ", "e", "s", "p", "e", "c", "i'", "f", "i", "c", "o", ".">>
TXT_clarification_app ==
    <<"P", "o", "r", " ", "f", "a", "v", "o", "r", ",", " ", "s", "e", "j", "a", " ", "m",
      "a", "i", "s", " ", "e", "s", "p", "e", "c", "i'", "f", "i", "c", "o", " ", "p", "a",
      "r", "a", " ", "q", "u", "e", " ", "e", "u", " ", "p", "o", "s", "s", "a", " ", "a",
      "j", "u", "d", "a'", "-", "l", "o", " ", "m", "e", "l", "h", "o", "r", ".">>
TXT_no_results ==
    <<"N", "a~", "o", " ", "e", "n", "c", "o", "n", "t", "r", "e", "i", " ", "i", "n", "f",
      "o", "r", "m", "a", "c,", "o~", "e", "s", " ", "r", "e", "l", "e", "v", "a", "n",
      "t", "e", "s", " ", "n", "o", "s", " ", "d", "o", "c", "u", "m", "e", "n", "t", "o",
      "s", " ", "d", "i", "s", "p", "o", "n", "i'", "v", "e", "i", "s", ".">>
TXT_erro_gerar ==
    <<"E", "r", "r", "o", " ", "a", "o", " ", "g", "e", "r", "a", "r", " ", "r", "e", "s",
      "p", "o", "s", "t", "a", ":", " ">>
TXT_erro_busca ==
    <<"E", "r", "r", "o", " ", "n", "a", " ", "b", "u", "s", "c", "a", ":", " ">>
TXT_erro_modelo ==
    <<"D", "e", "s", "c", "u", "l", "p", "e", ",", " ", "o", "c", "o", "r", "r", "e", "u",
      " ", "u", "m", " ", "e", "r", "r", "o", " ", "a", "o", " ", "p", "r", "o", "c", "e",
      "s", "s", "a", "r", " ", "s", "u", "a", " ", "s", "o", "l", "i", "c", "i", "t", "a",
      "c,", "a~", "o", ":", " ">>
TXT_erro_conectar ==
    <<"D", "e", "s", "c", "u", "l", "p", "e", ",", " ", "o", "c", "o", "r", "r", "e", "u",
      " ", "u", "m", " ", "e", "r", "r", "o", " ", "a", "o", " ", "c", "o", "n", "e", "c",
      "t", "a", "r", " ", "c", "o", "m", " ", "o", " ", "m", "o", "d", "e", "l", "o", ".">>
TXT_erro_processar ==
    <<"E", "r", "r", "o", " ", "a", "o", " ", "p", "r", "o", "c", "e", "s", "s", "a", "r",
      ":", " ">>

\* str(e) of an exception
ErrText == <<"t", "i", "m", "e", "o", "u", "t">>

NoReq ==
    [orch |-> "none", user |-> "none", prompt |-> <<>>, cache_hit |-> "none",
     response |-> None, calls |-> <<>>]

(***************************************************************************)
(* Specification SpecNorm: normalize_question applied once and twice       *)
(***************************************************************************)
ToolIdle == tool_question = <<>> /\ tool_picked = "NotRun"

NormIdle == nq_text = <<>> /\ nq_once = NotRun /\ nq_twice = NotRun

TablesEmpty == qa_user_cache = <<>> /\ qa_global_cache = <<>>

LatestNone ==
    /\ latest_user = [k \in Users \X NormKeys |-> None]
    /\ latest_global = [k \in NormKeys |-> None]

CacheIdle == TablesEmpty /\ cache_op = NoOp /\ LatestNone

OrchIdle == req = NoReq

StoreIdle == documentos = <<>> /\ chunks = <<>> /\ store_op = NoOp

ClarIdle == clar = NoOp

RunIdle == run = NoOp

EnrIdle == enr = NoOp

CntIdle == cnt = NoOp

EmbIdle == emb = NoOp

RetIdle == ret = NoOp

ProcIdle == proc = NoOp

HydeIdle == hyde = NoOp

FlightIdle == RetIdle /\ ProcIdle /\ HydeIdle

StagesIdle == ClarIdle /\ RunIdle /\ EnrIdle /\ CntIdle /\ EmbIdle /\ FlightIdle

InitNorm ==
    /\ nq_text \in NormTexts
    /\ nq_once = NotRun
    /\ nq_twice = NotRun
    /\ ToolIdle
    /\ CacheIdle
    /\ OrchIdle
    /\ StoreIdle
    /\ StagesIdle

NormalizeOnce ==
    /\ nq_once = NotRun
    /\ nq_once' = normalize_question(nq_text)
    /\ UNCHANGED <<nq_text, nq_twice, notNorm>>

NormalizeTwice ==
    /\ nq_once # NotRun
    /\ nq_twice = NotRun
    /\ nq_twice' = normalize_question(nq_once)
    /\ UNCHANGED <<nq_text, nq_once, notNorm>>

NextNorm == NormalizeOnce \/ NormalizeTwice

SpecNorm == InitNorm /\ [][NextNorm]_vars

\* C4: normalize_question is idempotent: normalizing a normalized question
\* gives the normalized question back.
C4_NormalizeIdempotent == nq_twice # NotRun => nq_twice = nq_once

(***************************************************************************)
(* Specification SpecTool: FocalAgent.pick_tool applied to a question      *)
(***************************************************************************)
InitTool ==
    /\ tool_question \in ToolQuestions
    /\ tool_picked = "NotRun"
    /\ NormIdle
    /\ CacheIdle
    /\ OrchIdle
    /\ StoreIdle
    /\ StagesIdle

PickTool ==
    /\ tool_picked = "NotRun"
    /\ tool_picked' = pick_tool(tool_question)
    /\ UNCHANGED <<tool_question, notTool>>

NextTool == PickTool

SpecTool == InitTool /\ [][NextTool]_vars

\* the positions in TOOLS of the tools a question matches
MatchingTools(question) ==
    {i \in 1..Len(TOOLS) :
        \E j \in 1..Len(TOOLS[i].detect_terms) :
            Contains(LowerText(question), TOOLS[i].detect_terms[j])}

\* C9: pick_tool("Qual a pauta da proxima reuniao?") is the tool pauta and
\* pick_tool("Quando foi a reuniao?") is the tool data_reuniao.
C9_SpecExamples ==
    tool_picked # "NotRun" =>
        /\ tool_question = Q_pauta_proxima_reuniao => tool_picked = "pauta"
        /\ tool_question = Q_quando_foi_a_reuniao => tool_picked = "data_reuniao"

InitCache ==
    /\ TablesEmpty
    /\ cache_op = NoOp
    /\ LatestNone
    /\ NormIdle
    /\ ToolIdle
    /\ OrchIdle
    /\ StoreIdle
    /\ StagesIdle

HasUserRow(tbl, user_id, question) ==
    \E i \in 1..Len(tbl) :
        tbl[i].user = user_id /\ tbl[i].normalized = Normalized(question)

HasGlobalRow(tbl, question) ==
    \E i \in 1..Len(tbl) : tbl[i].normalized = Normalized(question)

SetUserAnswer(u, q, a) ==
    /\ HasUserRow(qa_user_cache, u, q) \/ Len(qa_user_cache) < MaxRows
    /\ qa_user_cache' = set_user_answer(qa_user_cache, u, q, a)
    /\ cache_op' = [op |-> "set_user_answer", user |-> u, question |-> q, answer |-> a,
                    conflict |-> HasUserRow(qa_user_cache, u, q)]
    /\ latest_user' = [latest_user EXCEPT ![<<u, Normalized(q)>>] = a]
    /\ UNCHANGED <<qa_global_cache, latest_global, notCache>>

SetGlobalAnswer(q, a) ==
    /\ HasGlobalRow(qa_global_cache, q) \/ Len(qa_global_cache) < MaxRows
    /\ qa_global_cache' = set_global_answer(qa_global_cache, q, a)
    /\ cache_op' = [op |-> "set_global_answer", question |-> q, answer |-> a,
                    conflict |-> HasGlobalRow(qa_global_cache, q)]
    /\ latest_global' = [latest_global EXCEPT ![Normalized(q)] = a]
    /\ UNCHANGED <<qa_user_cache, latest_user, notCache>>

GetUserAnswer(u, q) ==
    /\ cache_op' = [op |-> "get_user_answer", user |-> u, question |-> q,
                    result |-> get_user_answer(qa_user_cache, u, q)]
    /\ UNCHANGED <<tableVars, latest_user, latest_global, notCache>>

GetGlobalAnswer(q) ==
    /\ cache_op' = [op |-> "get_global_answer", question |-> q,
                    result |-> get_global_answer(qa_global_cache, q)]
    /\ UNCHANGED <<tableVars, latest_user, latest_global, notCache>>

ClearUserCache(u) ==
    /\ qa_user_cache' = clear_user_cache(qa_user_cache, u)
    /\ cache_op' = [op |-> "clear_user_cache", user |-> u]
    /\ latest_user' = [k \in Users \X NormKeys |-> IF k[1] = u THEN None ELSE latest_user[k]]
    /\ UNCHANGED <<qa_global_cache, latest_global, notCache>>

ClearGlobalCache ==
    /\ qa_global_cache' = clear_global_cache(qa_global_cache)
    /\ cache_op' = [op |-> "clear_global_cache"]
    /\ latest_global' = [k \in NormKeys |-> None]
    /\ UNCHANGED <<qa_user_cache, latest_user, notCache>>

NextCache ==
    \/ \E u \in Users, q \in CacheQuestions, a \in CacheAnswers : SetUserAnswer(u, q, a)
    \/ \E q \in CacheQuestions, a \in CacheAnswers : SetGlobalAnswer(q, a)
    \/ \E u \in Users, q \in CacheQuestions : GetUserAnswer(u, q)
    \/ \E q \in CacheQuestions : GetGlobalAnswer(q)
    \/ \E u \in Users : ClearUserCache(u)
    \/ ClearGlobalCache

SpecCache == InitCache /\ [][NextCache]_vars

\* two questions that differ only in letter case, diacritics or punctuation
\* characters: equal once accents, case and punctuation are taken away
Fold(q) == SelectSeq(LowerText(StripAccents(q)), LAMBDA c : c \notin PunctuationChars)

SameButCasePunctuation(q1, q2) == Fold(q1) = Fold(q2)

\* C5: a get that directly follows set(scope, q, a) with a non-bypassed a, for
\* q itself or a question that differs from q only in case, diacritics or
\* punctuation, returns a.
C5_RoundTrip ==
    [][ /\ ( /\ cache_op.op = "set_user_answer"
             /\ cache_op'.op = "get_user_answer"
             /\ cache_op'.user = cache_op.user
             /\ SameButCasePunctuation(cache_op.question, cache_op'.question)
             /\ ~should_bypass_cache(cache_op.answer) )
            => cache_op'.result = cache_op.answer
        /\ ( /\ cache_op.op = "set_global_answer"
             /\ cache_op'.op = "get_global_answer"
             /\ SameButCasePunctuation(cache_op.question, cache_op'.question)
             /\ ~should_bypass_cache(cache_op.answer) )
            => cache_op'.result = cache_op.answer ]_vars

\* C6: the cache holds at most one row per (scope, normalized question), and
\* a get for a key returns the answer of the latest set for that key (None
\* when the key was never set, or cleared since).
C6_OneRowPerKeyLatestAnswer ==
    /\ \A i, j \in 1..Len(qa_user_cache) :
          ( /\ qa_user_cache[i].user = qa_user_cache[j].user
            /\ qa_user_cache[i].normalized = qa_user_cache[j].normalized ) => i = j
    /\ \A i, j \in 1..Len(qa_global_cache) :
          qa_global_cache[i].normalized = qa_global_cache[j].normalized => i = j
    /\ \A u \in Users, q \in CacheQuestions :
          get_user_answer(qa_user_cache, u, q) = latest_user[<<u, Normalized(q)>>]
    /\ \A q \in CacheQuestions :
          get_global_answer(qa_global_cache, q) = latest_global[Normalized(q)]

\* the last call was a set on a key that already had a row, in a full table,
\* and a get of that key under another wording returns the answer just set
C6_Witness ==
    /\ cache_op.op = "set_user_answer"
    /\ cache_op.conflict
    /\ cache_op.answer = AnsSim
    /\ Len(qa_user_cache) = MaxRows
    /\ \E q \in CacheQuestions :
          /\ q # cache_op.question
          /\ get_user_answer(qa_user_cache, cache_op.user, q) = cache_op.answer

(***************************************************************************)
(* Specification Spec: chat requests served by the three orchestrators     *)
(* (ChatService.answer, app.py, app_enhanced.py) over one CacheService,    *)
(* with every optional service present (CACHE_ENABLED, RAG_ENABLED,        *)
(* ALL_SERVICES_AVAILABLE).  What the retrieval pipeline and the language  *)
(* model produce for a request is the environment's choice.                *)
(***************************************************************************)
\* Python's truth value of an Optional[str]
Truthy(text) == text # None /\ text # <<>>

GeneratedAnswers == {AnsSim, AnsNaoSei, AnsNotFound, AnsSemInfo, <<>>}

Generated == {[kind |-> "generated", text |-> a] : a \in GeneratedAnswers}

\* how ChatService.answer can leave its pipeline: a generated answer, the
\* clarification text, the text of a failed generation, an exception of the
\* rewriter, the agent, the clarifier or the enricher, which it does not catch
ChatServiceOutcomes ==
    Generated \cup
    {[kind |-> "clarification", text |-> TXT_clarification],
     [kind |-> "llm_error", text |-> TXT_erro_gerar \o ErrText],
     [kind |-> "raised", text |-> None]}

AppOutcomes ==
    Generated \cup
    {[kind |-> "clarification", text |-> TXT_clarification_app],
     [kind |-> "no_results", text |-> TXT_no_results],
     [kind |-> "search_error", text |-> TXT_erro_busca \o ErrText],
     [kind |-> "llm_error", text |-> TXT_erro_modelo \o ErrText],
     [kind |-> "no_stream", text |-> TXT_erro_conectar]}

AppEnhancedOutcomes ==
    Generated \cup
    {[kind |-> "clarification", text |-> TXT_clarification],
     [kind |-> "error", text |-> TXT_erro_processar \o ErrText]}

\* should_bypass_cache and _is_negative of the texts above, computed once
AnswerTexts ==
    {out.text : out \in (ChatServiceOutcomes \cup AppOutcomes \cup AppEnhancedOutcomes)
                         \ {[kind |-> "raised", text |-> None]}}

BypassTable == [a \in AnswerTexts |-> should_bypass_cache(a)]

NegativeTable == [a \in AnswerTexts |-> is_negative(a)]

Bypassed(answer) ==
    IF answer \in DOMAIN BypassTable THEN BypassTable[answer]
    ELSE should_bypass_cache(answer)

Negative(answer) ==
    IF answer \in DOMAIN NegativeTable THEN NegativeTable[answer]
    ELSE is_negative(answer)

\* the prompts of the chat requests: two wordings of one question
Prompts == {CQ_e_qmark, CQ_E_acute_qmark}

\* the calls of the pipeline up to the point where it ends
PipelineCalls(kind) ==
    IF kind \in {"generated", "llm_error", "no_stream"}
    THEN <<"rewrite", "search", "generate">>
    ELSE <<"rewrite", "search">>

CacheWrites == <<"set_user_answer", "set_global_answer">>

HasRoom(u, q) ==
    /\ HasUserRow(qa_user_cache, u, q) \/ Len(qa_user_cache) < MaxRows
    /\ HasGlobalRow(qa_global_cache, q) \/ Len(qa_global_cache) < MaxRows

\* a cache hit ends the request; otherwise the pipeline runs, and its text is
\* written to both scopes when the orchestrator's test lets it
Serve(orch, u, q, check, out, store) ==
    IF check.cache_hit # "none"
    THEN /\ req' = [orch |-> orch, user |-> u, prompt |-> q,
                    cache_hit |-> check.cache_hit, response |-> check.response,
                    calls |-> check.calls]
         /\ UNCHANGED tableVars
    ELSE /\ store => HasRoom(u, q)
         /\ qa_user_cache' =
               IF store THEN set_user_answer(qa_user_cache, u, q, out.text)
               ELSE qa_user_cache
         /\ qa_global_cache' =
               IF store THEN set_global_answer(qa_global_cache, q, out.text)
               ELSE qa_global_cache
         /\ req' = [orch |-> orch, user |-> u, prompt |-> q, cache_hit |-> "none",
                    response |-> out.text,
                    calls |-> check.calls \o PipelineCalls(out.kind) \o
                              (IF store THEN CacheWrites ELSE <<>>)]

Hit(scope, answer, calls) == [cache_hit |-> scope, response |-> answer, calls |-> calls]

Miss(calls) == [cache_hit |-> "none", response |-> None, calls |-> calls]

\* ChatService.answer, step 1
ChatService_cache_check(user_id, user_message) ==
    LET cached == get_user_answer(qa_user_cache, user_id, user_message)
        cached_global == get_global_answer(qa_global_cache, user_message)
    IN  IF Truthy(cached) /\ ~Negative(cached)
        THEN Hit("user", cached, <<"get_user_answer">>)
        ELSE IF Truthy(cached_global) /\ ~Negative(cached_global)
        THEN Hit("global", cached_global, <<"get_user_answer", "get_global_answer">>)
        ELSE Miss(<<"get_user_answer", "get_global_answer">>)

\* ChatService.answer, step 8: the test before the cache is written
ChatService_stores(out) ==
    /\ out.kind \in {"generated", "llm_error"}
    /\ Truthy(out.text)
    /\ ~Negative(out.text)

ChatServiceAnswer(user_id, user_message, out) ==
    /\ Serve("ChatService.answer", user_id, user_message,
             ChatService_cache_check(user_id, user_message), out,
             ChatService_stores(out))
    /\ UNCHANGED notOrch

\* app.py, CACHE CHECK
app_cache_check(user_id, prompt) ==
    LET cached == get_user_answer(qa_user_cache, user_id, prompt)
        cached_global == get_global_answer(qa_global_cache, prompt)
    IN  IF Truthy(cached) /\ ~Bypassed(cached)
        THEN Hit("user", cached, <<"get_user_answer">>)
        ELSE IF Truthy(cached_global) /\ ~Bypassed(cached_global)
        THEN Hit("global", cached_global, <<"get_user_answer", "get_global_answer">>)
        ELSE Miss(<<"get_user_answer", "get_global_answer">>)

\* app.py, CACHE & AUDIT: the test before the cache is written
app_stores(out) == ~Bypassed(out.text)

AppRequest(user_id, prompt, out) ==
    /\ Serve("app.py", user_id, prompt, app_cache_check(user_id, prompt), out,
             app_stores(out))
    /\ UNCHANGED notOrch

\* app_enhanced.py, "Check cache first"
app_enhanced_cache_check(user_id, prompt) ==
    LET cached == get_user_answer(qa_user_cache, user_id, prompt)
    IN  IF Truthy(cached) /\ ~Bypassed(cached)
        THEN Hit("user", cached, <<"get_user_answer">>)
        ELSE Miss(<<"get_user_answer">>)

\* app_enhanced.py, "Cache response": reached unless the pipeline raised
app_enhanced_stores(out) ==
    /\ out.kind \in {"generated", "clarification"}
    /\ ~Bypassed(out.text)

AppEnhancedRequest(user_id, prompt, out) ==
    /\ Serve("app_enhanced.py", user_id, prompt,
             app_enhanced_cache_check(user_id, prompt), out,
             app_enhanced_stores(out))
    /\ UNCHANGED notOrch

Init ==
    /\ TablesEmpty
    /\ req = NoReq
    /\ cache_op = NoOp
    /\ LatestNone
    /\ NormIdle
    /\ ToolIdle
    /\ StoreIdle
    /\ StagesIdle

Next ==
    \/ \E u \in Users, q \in Prompts, out \in ChatServiceOutcomes :
          ChatServiceAnswer(u, q, out)
    \/ \E u \in Users, q \in Prompts, out \in AppOutcomes :
          AppRequest(u, q, out)
    \/ \E u \in Users, q \in Prompts, out \in AppEnhancedOutcomes :
          AppEnhancedRequest(u, q, out)

Spec == Init /\ [][Next]_vars

\* C2: in every orchestrator no answer for which should_bypass_cache is true
\* is returned as a cache hit, and none is written to the cache.
C2_NoBypassedAnswerHitOrWritten ==
    /\ \A i \in 1..Len(qa_user_cache) : ~Bypassed(qa_user_cache[i].answer)
    /\ \A i \in 1..Len(qa_global_cache) : ~Bypassed(qa_global_cache[i].answer)
    /\ req.cache_hit # "none" => ~Bypassed(req.response)

\* C3: the cache stage of every orchestrator returns the user-scope answer if
\* there is one and it is not negative, otherwise the global-scope answer if
\* there is one and it is not negative, otherwise misses; it asks the user
\* scope first and the global scope whenever the user scope misses, and on a
\* hit makes no rewrite, search or generation call.
C3_CacheStageUserThenGlobal ==
    [][ req'.orch # "none" =>
          LET cached == get_user_answer(qa_user_cache, req'.user, req'.prompt)
              cached_global == get_global_answer(qa_global_cache, req'.prompt)
              user_hit == Truthy(cached) /\ ~Bypassed(cached)
              global_hit == Truthy(cached_global) /\ ~Bypassed(cached_global)
          IN  /\ user_hit =>
                    req' = [req' EXCEPT !.cache_hit = "user", !.response = cached,
                                        !.calls = <<"get_user_answer">>]
              /\ (~user_hit /\ global_hit) =>
                    req' = [req' EXCEPT !.cache_hit = "global",
                                        !.response = cached_global,
                                        !.calls = <<"get_user_answer",
                                                    "get_global_answer">>]
              /\ (~user_hit /\ ~global_hit) =>
                    /\ req'.cache_hit = "none"
                    /\ Len(req'.calls) >= 2
                    /\ SubSeq(req'.calls, 1, 2) =
                          <<"get_user_answer", "get_global_answer">> ]_vars

(***************************************************************************)
(* VectorStore: the tables documentos and chunks.  A row of documentos is  *)
(* [hash_sha256, tipo, is_global, user_id] and a row of chunks is          *)
(* [documento_id, embedding]; both tables are AUTOINCREMENT and never      *)
(* deleted from, so a row's id is its position.  Embeddings are vectors of *)
(* two integers; cosine similarities are compared exactly.                 *)
(***************************************************************************)
\* SQL NULL in a column, and Python's None as the user_id of a search
NULL == "NULL"
NoUser == "None"

Dot(a, b) == a[1] * b[1] + a[2] * b[2]

\* np.dot(q, a) / (norm(q) * norm(a)) > np.dot(q, b) / (norm(q) * norm(b))
MoreSimilar(q, a, b) ==
    LET x == Dot(q, a)
        y == Dot(q, b)
    IN  IF x >= 0 /\ y < 0 THEN TRUE
        ELSE IF x < 0 /\ y >= 0 THEN FALSE
        ELSE IF x >= 0 THEN x * x * Dot(b, b) > y * y * Dot(a, a)
        ELSE x * x * Dot(b, b) < y * y * Dot(a, a)

\* a search that shows every owned document to every requester
permission_filter_AnyOwner(d, user_id) ==
    IF user_id # NoUser /\ user_id # ""
    THEN d.is_global = 1 \/ d.user_id # NULL
    ELSE d.is_global = 1

\* if user_id: WHERE d.is_global = 1 OR d.user_id = ?  else: WHERE d.is_global = 1
permission_filter(d, user_id) ==
    IF user_id # NoUser /\ user_id # ""
    THEN d.is_global = 1 \/ d.user_id = user_id
    ELSE d.is_global = 1

Ids(n) == [i \in 1..n |-> i]

\* FROM chunks c JOIN documentos d ON c.documento_id = d.id WHERE ..., read by
\* a scan of chunks: the ids of the joined chunks in the order of their ids
ScanChunks(chs, admitted) ==
    SelectSeq(Ids(Len(chs)), LAMBDA c : chs[c].documento_id \in admitted)

\* the same join read by a scan of documentos with a look-up in
\* idx_chunks_documento: document by document
RECURSIVE ScanDocumentos(_, _, _, _)
ScanDocumentos(d, docs, chs, admitted) ==
    IF d > Len(docs) THEN <<>>
    ELSE (IF d \in admitted
          THEN SelectSeq(Ids(Len(chs)), LAMBDA c : chs[c].documento_id = d)
          ELSE <<>>) \o ScanDocumentos(d + 1, docs, chs, admitted)

\* cur.fetchall() of a SELECT without ORDER BY: the order is the one of the
\* plan SQLite chooses for the statement
fetchall(plan, docs, chs, admitted) ==
    IF plan = "scan_chunks" THEN ScanChunks(chs, admitted)
    ELSE ScanDocumentos(1, docs, chs, admitted)

\* results.sort(key=similarity, reverse=True): a stable sort, so a row goes
\* before the first row of strictly smaller similarity
RECURSIVE InsertSorted(_, _, _, _)
InsertSorted(sorted, c, q, chs) ==
    IF sorted = <<>> THEN <<c>>
    ELSE IF MoreSimilar(q, chs[c].embedding, chs[Head(sorted)].embedding)
    THEN <<c>> \o sorted
    ELSE <<Head(sorted)>> \o InsertSorted(Tail(sorted), c, q, chs)

RECURSIVE SortBySimilarity(_, _, _)
SortBySimilarity(rows, q, chs) ==
    IF rows = <<>> THEN <<>>
    ELSE InsertSorted(SortBySimilarity(SubSeq(rows, 1, Len(rows) - 1), q, chs),
                      rows[Len(rows)], q, chs)

\* results[:k], k >= 1
FirstK(results, k) == SubSeq(results, 1, IF k < Len(results) THEN k ELSE Len(results))

\* VectorStore.search; query_embedding is generate_embedding(query)
search(docs, chs, query_embedding, k, user_id, plan) ==
    LET admitted == {d \in 1..Len(docs) : permission_filter(docs[d], user_id)}
    IN  FirstK(SortBySimilarity(fetchall(plan, docs, chs, admitted),
                                query_embedding, chs), k)

\* VectorStore.search_by_embedding
search_by_embedding(docs, chs, embedding, k, user_id, plan) ==
    LET admitted == {d \in 1..Len(docs) : permission_filter(docs[d], user_id)}
    IN  FirstK(SortBySimilarity(fetchall(plan, docs, chs, admitted), embedding, chs), k)

\* VectorStore.search_with_filter; filters.tipo = NULL stands for a dict
\* without the key 'tipo'
search_with_filter(docs, chs, query_embedding, filters, k, user_id, plan) ==
    LET admitted == {d \in 1..Len(docs) :
                        /\ permission_filter(docs[d], user_id)
                        /\ filters.tipo # NULL => docs[d].tipo = filters.tipo}
    IN  FirstK(SortBySimilarity(fetchall(plan, docs, chs, admitted),
                                query_embedding, chs), k)

\* add_documents without the look-up of the hash
RECURSIVE add_documents_NoHashCheck(_, _, _, _)
add_documents_NoHashCheck(docs, chs, batch, owner) ==
    IF batch = <<>> THEN [documentos |-> docs, chunks |-> chs]
    ELSE LET doc == Head(batch)
         IN  add_documents_NoHashCheck(
                 Append(docs, [hash_sha256 |-> doc.hash_sha256, tipo |-> doc.tipo,
                               is_global |-> owner.is_global,
                               user_id |-> owner.user_id]),
                 chs \o [i \in 1..Len(doc.chunks) |->
                            [documento_id |-> Len(docs) + 1,
                             embedding |-> doc.chunks[i]]],
                 Tail(batch), owner)

\* VectorStore.add_documents: the loop over zip(documents, chunks_per_doc).
\* The INSERT does not name is_global and user_id: a new row gets what the
\* table gives these columns (owner).
RECURSIVE add_documents(_, _, _, _)
add_documents(docs, chs, batch, owner) ==
    IF batch = <<>> THEN [documentos |-> docs, chunks |-> chs]
    ELSE LET doc == Head(batch)
             existing == \E i \in 1..Len(docs) : docs[i].hash_sha256 = doc.hash_sha256
         IN  IF existing
             THEN add_documents(docs, chs, Tail(batch), owner)
             ELSE add_documents(
                      Append(docs, [hash_sha256 |-> doc.hash_sha256, tipo |-> doc.tipo,
                                    is_global |-> owner.is_global,
                                    user_id |-> owner.user_id]),
                      chs \o [i \in 1..Len(doc.chunks) |->
                                 [documento_id |-> Len(docs) + 1,
                                  embedding |-> doc.chunks[i]]],
                      Tail(batch), owner)

(***************************************************************************)
(* Inputs of the vector store                                              *)
(***************************************************************************)
\* most rows of the table chunks
MaxChunks == 2

\* the documents handed to add_documents: content hash and type
Documents ==
    {[hash_sha256 |-> "h1", tipo |-> "ata"],
     [hash_sha256 |-> "h2", tipo |-> "ata"],
     [hash_sha256 |-> "h2", tipo |-> "pauta"]}

Embeddings == {<<1, 0>>, <<1, 1>>, <<-1, 1>>}

QueryEmbeddings == {<<1, 0>>, <<1, 1>>}

\* what the columns is_global and user_id of a row of documentos can hold,
\* and what a new row holds in them
Owners == [is_global : {0, 1}, user_id : {NULL, "alice"}]

InsertOwners == {[is_global |-> 1, user_id |-> NULL], [is_global |-> 0, user_id |-> "alice"]}

\* the embeddings of the chunks that are written
IngestEmbeddings == {<<1, 0>>, <<1, 1>>}

Requesters == Users \cup {NoUser}

Ks == {1, MaxChunks}

\* a document with the chunks the processor cut it into, already embedded
DocInputs ==
    {[hash_sha256 |-> d.hash_sha256, tipo |-> d.tipo, chunks |-> c] :
        d \in Documents, c \in {<<>>} \cup {<<e>> : e \in IngestEmbeddings}}

\* the lists handed to add_documents: one document, or two documents that
\* have a chunk each
Batches ==
    {<<d>> : d \in DocInputs} \cup
    {<<d1, d2>> : d1, d2 \in {d \in DocInputs : d.chunks = <<<<1, 0>>>>}}

DocIds == 1..2

(***************************************************************************)
(* Specification SpecStore: documents and chunks are written to the store  *)
(***************************************************************************)
InitStore ==
    /\ StoreIdle
    /\ NormIdle
    /\ ToolIdle
    /\ CacheIdle
    /\ OrchIdle
    /\ StagesIdle

AddDocuments(batch, owner) ==
    LET added == add_documents(documentos, chunks, batch, owner)
    IN  /\ Len(added.chunks) <= MaxChunks
        /\ documentos' = added.documentos
        /\ chunks' = added.chunks
        /\ store_op' = [op |-> "add_documents",
                        hashes |-> {batch[i].hash_sha256 : i \in 1..Len(batch)},
                        added |-> Len(added.documentos) - Len(documentos)]
        /\ UNCHANGED notStore

\* add_chunks_to_vector_store with one chunk, whose metadata names doc_id
AddChunks(doc_id, embedding) ==
    /\ Len(chunks) < MaxChunks
    /\ chunks' = Append(chunks, [documento_id |-> doc_id, embedding |-> embedding])
    /\ store_op' = [op |-> "add_chunks_to_vector_store"]
    /\ UNCHANGED <<documentos, notStore>>

\* the permissions panel: UPDATE documentos SET is_global = 1 (or 0)
SetAllGlobal(flag) ==
    /\ documentos' = [i \in 1..Len(documentos) |-> [documentos[i] EXCEPT !.is_global = flag]]
    /\ store_op' = [op |-> "set_all_global"]
    /\ UNCHANGED <<chunks, notStore>>

NextStore ==
    \/ \E batch \in Batches, owner \in InsertOwners : AddDocuments(batch, owner)
    \/ \E doc_id \in DocIds, embedding \in IngestEmbeddings : AddChunks(doc_id, embedding)
    \/ \E flag \in {0, 1} : SetAllGlobal(flag)

SpecStore == InitStore /\ [][NextStore]_vars

StoredHashes(docs) == {docs[i].hash_sha256 : i \in 1..Len(docs)}

\* C8: add_documents on documents whose content hash is already stored adds
\* no row to documentos and no row to chunks, and after any calls no two rows
\* of documentos have the same content hash.
C8_IngestIdempotentOnHash ==
    [][ store_op'.op = "add_documents" =>
          /\ store_op'.hashes \subseteq StoredHashes(documentos) =>
                (documentos' = documentos /\ chunks' = chunks)
          /\ \A i, j \in 1..Len(documentos') :
                documentos'[i].hash_sha256 = documentos'[j].hash_sha256 => i = j ]_vars

\* two documents are stored, one of them with a chunk, and the last call was
\* an add_documents of two documents that added nothing
C8_Witness ==
    /\ store_op.op = "add_documents"
    /\ store_op.added = 0
    /\ Cardinality(store_op.hashes) = 2
    /\ Len(documentos) = 2
    /\ Len(chunks) >= 1
    /\ Len(chunks) < MaxChunks

(***************************************************************************)
(* Specification SpecSearch: one search on a store the writes above can    *)
(* leave behind.  The plan of the SELECT is SQLite's choice.               *)
(***************************************************************************)
DocRows ==
    {[hash_sha256 |-> d.hash_sha256, tipo |-> d.tipo,
      is_global |-> o.is_global, user_id |-> o.user_id] : d \in Documents, o \in Owners}

\* the states of documentos: no two rows with the same hash_sha256
DocTables ==
    {<<>>} \cup {<<d>> : d \in DocRows} \cup
    {t \in {<<d1, d2>> : d1, d2 \in DocRows} : t[1].hash_sha256 # t[2].hash_sha256}

ChunkRows == [documento_id : DocIds, embedding : Embeddings]

ChunkTables == TextsUpTo(ChunkRows, MaxChunks)

Plans == {"scan_chunks", "scan_documentos"}

Filters == {[tipo |-> "ata"], [tipo |-> "pauta"]}

NoFilters == [tipo |-> NULL]

InitSearch ==
    /\ documentos \in DocTables
    /\ chunks \in ChunkTables
    /\ store_op = NoOp
    /\ NormIdle
    /\ ToolIdle
    /\ CacheIdle
    /\ OrchIdle
    /\ StagesIdle

Search(query_embedding, k, user_id, plan) ==
    /\ store_op = NoOp
    /\ store_op' = [op |-> "search", query_embedding |-> query_embedding, k |-> k,
                    user_id |-> user_id, filters |-> NoFilters,
                    results |-> search(documentos, chunks, query_embedding, k,
                                       user_id, plan)]
    /\ UNCHANGED <<documentos, chunks, notStore>>

SearchByEmbedding(embedding, k, user_id, plan) ==
    /\ store_op = NoOp
    /\ store_op' = [op |-> "search_by_embedding", query_embedding |-> embedding,
                    k |-> k, user_id |-> user_id, filters |-> NoFilters,
                    results |-> search_by_embedding(documentos, chunks, embedding, k,
                                                    user_id, plan)]
    /\ UNCHANGED <<documentos, chunks, notStore>>

SearchWithFilter(query_embedding, filters, k, user_id, plan) ==
    /\ store_op = NoOp
    /\ store_op' = [op |-> "search_with_filter", query_embedding |-> query_embedding,
                    k |-> k, user_id |-> user_id, filters |-> filters,
                    results |-> search_with_filter(documentos, chunks, query_embedding,
                                                   filters, k, user_id, plan)]
    /\ UNCHANGED <<documentos, chunks, notStore>>

NextSearch ==
    \/ \E q \in QueryEmbeddings, k \in Ks, u \in Requesters, plan \in Plans :
          Search(q, k, u, plan)
    \/ \E q \in QueryEmbeddings, k \in Ks, u \in Requesters, plan \in Plans :
          SearchByEmbedding(q, k, u, plan)
    \/ \E q \in QueryEmbeddings, f \in Filters, k \in Ks, u \in Requesters, plan \in Plans :
          SearchWithFilter(q, f, k, u, plan)

SpecSearch == InitSearch /\ [][NextSearch]_vars

Searched == store_op.op \in {"search", "search_by_embedding", "search_with_filter"}

\* the document of a chunk, when the chunk has one
HasDoc(c) == chunks[c].documento_id \in 1..Len(documentos)

DocOf(c) == documentos[chunks[c].documento_id]

\* a chunk the last search may return: its document is global or owned by
\* the requester, and of the type asked for
Admissible(c) ==
    /\ HasDoc(c)
    /\ \/ DocOf(c).is_global = 1
       \/ store_op.user_id # NoUser /\ DocOf(c).user_id = store_op.user_id
    /\ store_op.filters.tipo # NULL => DocOf(c).tipo = store_op.filters.tipo

InResults(c) == \E i \in 1..Len(store_op.results) : store_op.results[i] = c

\* the chunks other than c that are at least as similar to the query as c
AtLeastAsSimilar(c) ==
    {b \in 1..Len(chunks) :
        /\ b # c
        /\ Admissible(b)
        /\ ~MoreSimilar(store_op.query_embedding, chunks[c].embedding,
                        chunks[b].embedding)}

\* C1: every chunk a search returns belongs to a document that is global or
\* owned by the requester, only chunks of global documents are returned when
\* there is no requester, and a chunk of a private document is returned to
\* its owner whenever fewer than k other admissible chunks are at least as
\* similar.
C1_PermissionFiltering ==
    Searched =>
        /\ \A i \in 1..Len(store_op.results) :
              LET c == store_op.results[i]
              IN  /\ HasDoc(c)
                  /\ \/ DocOf(c).is_global = 1
                     \/ DocOf(c).user_id = store_op.user_id
                  /\ store_op.user_id = NoUser => DocOf(c).is_global = 1
        /\ \A c \in 1..Len(chunks) :
              ( /\ Admissible(c)
                /\ DocOf(c).is_global = 0
                /\ Cardinality(AtLeastAsSimilar(c)) < store_op.k ) => InResults(c)

\* a search of alice with a type filter has returned a chunk of a private
\* document of hers and left out an admissible chunk that ranks below it
C1_Witness ==
    /\ store_op.op = "search_with_filter"
    /\ store_op.user_id = "alice"
    /\ \E i \in 1..Len(store_op.results) :
          DocOf(store_op.results[i]).is_global = 0
    /\ \E c \in 1..Len(chunks) : Admissible(c) /\ ~InResults(c)

\* C7: a search returns the min(k, number of admissible chunks) admissible
\* chunks of highest cosine similarity, in non-increasing order of
\* similarity, chunks of equal similarity in insertion order.
C7_TopKBySimilarityTiesInInsertionOrder ==
    Searched =>
        LET results == store_op.results
            q == store_op.query_embedding
            admissible == {c \in 1..Len(chunks) : Admissible(c)}
            n == Cardinality(admissible)
        IN  /\ Len(results) = IF store_op.k < n THEN store_op.k ELSE n
            /\ \A i \in 1..Len(results) : results[i] \in admissible
            /\ \A i, j \in 1..Len(results) : results[i] = results[j] => i = j
            /\ \A c \in admissible :
                  ~InResults(c) =>
                      \A i \in 1..Len(results) :
                          ~MoreSimilar(q, chunks[c].embedding, chunks[results[i]].embedding)
            /\ \A i, j \in 1..Len(results) :
                  i < j =>
                      /\ ~MoreSimilar(q, chunks[results[j]].embedding,
                                      chunks[results[i]].embedding)
                      /\ ~MoreSimilar(q, chunks[results[i]].embedding,
                                      chunks[results[j]].embedding)
                            => results[i] < results[j]

(***************************************************************************)
(* The ClarificationAgent (agents/clarification_agent.py)                  *)
(*                                                                         *)
(* A search result is the row the vector store returns, reduced to the     *)
(* keys the agent reads (titulo, tipo).  A confidence is written in        *)
(* tenths: 8 is 0.8 and 7 is 0.7.                                          *)
(***************************************************************************)
\* "pauta"
TW_pauta == <<"p", "a", "u", "t", "a">>
\* "ata"
TW_ata == <<"a", "t", "a">>
\* "reunião"
TW_reuniao_acc == <<"r", "e", "u", "n", "i", "a~", "o">>
\* "reuniao"
TW_reuniao == <<"r", "e", "u", "n", "i", "a", "o">>
\* "qual"
VW_qual == <<"q", "u", "a", "l">>
\* "quando"
VW_quando == <<"q", "u", "a", "n", "d", "o">>
\* "onde"
VW_onde == <<"o", "n", "d", "e">>
\* "última"
SW_ultima_acc == <<"u'", "l", "t", "i", "m", "a">>
\* "ultima"
SW_ultima == <<"u", "l", "t", "i", "m", "a">>
\* "próxima"
SW_proxima_acc == <<"p", "r", "o'", "x", "i", "m", "a">>
\* "proxima"
SW_proxima == <<"p", "r", "o", "x", "i", "m", "a">>
\* "número"
SW_numero_acc == <<"n", "u'", "m", "e", "r", "o">>
\* "numero"
SW_numero == <<"n", "u", "m", "e", "r", "o">>
\* the literal text the list of specific words ends with: r'\d+'
SW_regex_digits == <<"\\", "d", "+">>

temporal_words == <<TW_pauta, TW_ata, TW_reuniao_acc, TW_reuniao>>
vague_words == <<VW_qual, VW_quando, VW_onde>>
specific_words ==
    <<SW_ultima_acc, SW_ultima, SW_proxima_acc, SW_proxima, SW_numero_acc, SW_numero,
      SW_regex_digits>>

\* any(word in query for word in words)
AnyWordIn(words, query) == \E i \in 1..Len(words) : Contains(query, words[i])

is_temporal_query(query) ==
    LET has_temporal == AnyWordIn(temporal_words, query)
        has_vague == AnyWordIn(vague_words, query)
        no_specific == ~AnyWordIn(specific_words, query)
    IN  has_temporal /\ has_vague /\ no_specific

CONF_temporal == 8
CONF_multiple_options == 7

\* return None
NoClarification == [ambiguity_type |-> "none"]

OPT_ultima == <<"u'", "l", "t", "i", "m", "a">>
OPT_proxima == <<"p", "r", "o'", "x", "i", "m", "a">>

\* search_results[:n]
TopN(search_results, n) ==
    SubSeq(search_results, 1, IF Len(search_results) < n THEN Len(search_results) ELSE n)

\* set(r.get('titulo', '') for r in search_results)
Titles(search_results) == {search_results[i].titulo : i \in 1..Len(search_results)}

check_temporal_ambiguity_AnyResults(user_query, search_results) ==
    LET doc_info == TopN(search_results, 5)
    IN  IF Len(doc_info) > 0
        THEN [ambiguity_type |-> "temporal", original_query |-> user_query,
              tipo |-> doc_info[1].tipo, options |-> <<OPT_ultima, OPT_proxima>>,
              confidence |-> CONF_temporal]
        ELSE NoClarification

check_temporal_ambiguity(user_query, search_results) ==
    LET doc_info == TopN(search_results, 5)
        unique_docs == Titles(doc_info)
    IN  IF Len(doc_info) > 0 /\ Cardinality(unique_docs) > 1
        THEN [ambiguity_type |-> "temporal", original_query |-> user_query,
              tipo |-> doc_info[1].tipo, options |-> <<OPT_ultima, OPT_proxima>>,
              confidence |-> CONF_temporal]
        ELSE NoClarification

has_multiple_similar_docs(search_results) ==
    IF Len(search_results) < 2 THEN FALSE
    ELSE Cardinality(Titles(TopN(search_results, 5))) > 1

\* the keys of docs_by_title, in the order they were first met
RECURSIVE FirstMet(_, _)
FirstMet(search_results, seen) ==
    IF search_results = <<>> THEN seen
    ELSE LET titulo == search_results[1].titulo
         IN  FirstMet(Tail(search_results),
                      IF \E i \in 1..Len(seen) : seen[i] = titulo THEN seen
                      ELSE Append(seen, titulo))

check_multiple_docs_ambiguity(user_query, search_results) ==
    LET docs_by_title == FirstMet(TopN(search_results, 8), <<>>)
    IN  IF Len(docs_by_title) > 1
        THEN [ambiguity_type |-> "multiple_options", original_query |-> user_query,
              tipo |-> "none", options |-> TopN(docs_by_title, 3),
              confidence |-> CONF_multiple_options]
        ELSE NoClarification

check_for_ambiguity(user_query, search_results) ==
    LET query_lower == LowerText(user_query)
    IN  IF is_temporal_query(query_lower)
        THEN check_temporal_ambiguity(user_query, search_results)
        ELSE IF has_multiple_similar_docs(search_results)
        THEN check_multiple_docs_ambiguity(user_query, search_results)
        ELSE NoClarification

\* "Qual a pauta?"
AQ_qual_a_pauta == <<"Q", "u", "a", "l", " ", "a", " ", "p", "a", "u", "t", "a", "?">>
\* "QUAL A ATA?"
AQ_QUAL_A_ATA == <<"Q", "U", "A", "L", " ", "A", " ", "A", "T", "A", "?">>
\* "Qual a pauta da última reunião?"
AQ_qual_a_pauta_da_ultima ==
    <<"Q", "u", "a", "l", " ", "a", " ", "p", "a", "u", "t", "a", " ", "d", "a", " ", "u'",
      "l", "t", "i", "m", "a", " ", "r", "e", "u", "n", "i", "a~", "o", "?">>
\* "Qual a pauta 12?"
AQ_qual_a_pauta_12 ==
    <<"Q", "u", "a", "l", " ", "a", " ", "p", "a", "u", "t", "a", " ", "1", "2", "?">>
\* "Mostre a pauta"
AQ_mostre_a_pauta ==
    <<"M", "o", "s", "t", "r", "e", " ", "a", " ", "p", "a", "u", "t", "a">>
\* "Onde foi a reunião?"
AQ_onde_foi_a_reuniao ==
    <<"O", "n", "d", "e", " ", "f", "o", "i", " ", "a", " ", "r", "e", "u", "n", "i", "a~",
      "o", "?">>
\* "Mostre o regimento"
AQ_mostre_o_regimento ==
    <<"M", "o", "s", "t", "r", "e", " ", "o", " ", "r", "e", "g", "i", "m", "e", "n", "t",
      "o">>
\* "Qual o regimento?"
AQ_qual_o_regimento ==
    <<"Q", "u", "a", "l", " ", "o", " ", "r", "e", "g", "i", "m", "e", "n", "t", "o", "?">>

ClarQuestions ==
    {AQ_qual_a_pauta, AQ_QUAL_A_ATA, AQ_qual_a_pauta_da_ultima, AQ_qual_a_pauta_12,
     AQ_mostre_a_pauta, AQ_onde_foi_a_reuniao, AQ_mostre_o_regimento,
     AQ_qual_o_regimento}

\* most rows of a result list handed to the agent
MaxResults == 6

ResultRows ==
    {[titulo |-> "Pauta 1", tipo |-> "pauta"], [titulo |-> "Pauta 2", tipo |-> "pauta"],
     [titulo |-> "Ata 1", tipo |-> "ata"]}

ResultLists == UNION {[1..n -> ResultRows] : n \in 0..MaxResults}

(***************************************************************************)
(* Specification SpecClarify: check_for_ambiguity applied to a question    *)
(* and a result list                                                       *)
(***************************************************************************)
InitClarify ==
    /\ clar \in [op : {"pending"}, user_query : ClarQuestions,
                 search_results : ResultLists, out : {NoClarification}]
    /\ NormIdle
    /\ ToolIdle
    /\ CacheIdle
    /\ OrchIdle
    /\ StoreIdle
    /\ RunIdle
    /\ EnrIdle
    /\ CntIdle
    /\ EmbIdle
    /\ FlightIdle

CheckForAmbiguity ==
    /\ clar.op = "pending"
    /\ clar' = [clar EXCEPT !.op = "check_for_ambiguity",
                            !.out = check_for_ambiguity(clar.user_query,
                                                        clar.search_results)]
    /\ UNCHANGED <<run, enr, cnt, emb, notStage>>

NextClarify == CheckForAmbiguity

SpecClarify == InitClarify /\ [][NextClarify]_vars

\* the question names a meeting document (pauta, ata, reuniao) and carries
\* neither a word that says which one nor a number
TemporalNoDisambiguator(question) ==
    /\ AnyWordIn(temporal_words, LowerText(question))
    /\ ~AnyWordIn(specific_words, LowerText(question))
    /\ \A i \in 1..Len(question) :
          question[i] \notin {"0", "1", "2", "3", "4", "5", "6", "7", "8", "9"}

\* C11: for a question with temporal wording and no disambiguator,
\* check_for_ambiguity returns a clarification with confidence >= 0.7 when
\* the top results carry more than one distinct title, and no clarification
\* when all results carry one title or there are no results.
C11_ClarificationOnSeveralTitles ==
    (clar.op = "check_for_ambiguity" /\ TemporalNoDisambiguator(clar.user_query)) =>
        /\ Cardinality(Titles(TopN(clar.search_results, 5))) > 1 =>
              /\ clar.out # NoClarification
              /\ clar.out.confidence >= 7
        /\ Cardinality(Titles(clar.search_results)) <= 1 =>
              clar.out = NoClarification

\* "Qual a pauta?" was asked against a full result list spanning two
\* documents and got the temporal clarification
C11_Witness ==
    /\ clar.op = "check_for_ambiguity"
    /\ clar.user_query = AQ_qual_a_pauta
    /\ Len(clar.search_results) = MaxResults
    /\ Cardinality(Titles(clar.search_results)) = 2
    /\ clar.out # NoClarification
    /\ clar.out.confidence = CONF_temporal

(***************************************************************************)
(* The pipeline of a chat request that missed the cache: rewriting,        *)
(* retrieval, clarification, prompt assembly and generation, as each of    *)
(* the three orchestrators runs it.                                        *)
(*                                                                         *)
(* What the providers and the store hand to one request is its             *)
(* environment env:                                                        *)
(*   llm        "ok" (get_response returns a stream that yields            *)
(*              env.answer), "none" (LLMService.get_response caught an     *)
(*              error and returned None) or "raises" (the stream raises)   *)
(*   rewritten  the text the provider returns when asked to rewrite        *)
(*   embedding  "ok" or "fails" (generate_embedding raises)                *)
(*   filtered   the rows a search restricted to a document type returns    *)
(*   results    the rows an unrestricted search returns                    *)
(*   facts      whether derive_counts finds a fact in the chunks           *)
(* A system message is the sequence of its sections.                       *)
(***************************************************************************)
\* "regimento"
AW_regimento == <<"r", "e", "g", "i", "m", "e", "n", "t", "o">>
\* "estatuto"
AW_estatuto == <<"e", "s", "t", "a", "t", "u", "t", "o">>
\* "Qual o resultado?"
AQ_qual_o_resultado ==
    <<"Q", "u", "a", "l", " ", "o", " ", "r", "e", "s", "u", "l", "t", "a", "d", "o", "?">>

SEC_system_prompt == "system prompt"
\* this section carries "Se nada for relevante, diga que nao ha base documental."
SEC_fontes == "FONTES DISPONIVEIS"
SEC_informacoes == "INFORMACOES ADICIONAIS"
SEC_fatos == "FATOS DERIVADOS AUTOMATICAMENTE"
\* this section carries "Se a informacao NAO esta no contexto, diga claramente
\* que nao encontrou"
SEC_contexto == "CONTEXTO RECUPERADO DA BASE DE CONHECIMENTO"

NoMessages == <<>>

\* PromptEnricher.enrich: the system message
PromptEnricher_enrich(retrieved, semantic_enrichment, has_facts, agent_tool) ==
    LET context_block == retrieved # <<>>
        enrichment_info == semantic_enrichment \/ agent_tool # NoTool \/ has_facts
    IN  <<SEC_system_prompt>>
        \o (IF context_block THEN <<SEC_fontes>> ELSE <<>>)
        \o (IF enrichment_info THEN <<SEC_informacoes>> ELSE <<>>)
        \o (IF has_facts THEN <<SEC_fatos>> ELSE <<>>)

\* the clarifier was not asked
NotConsulted == [ambiguity_type |-> "not_consulted"]

\* clarification and clarification.confidence > 0.7
Interrupts(clarification) ==
    /\ clarification.ambiguity_type \in {"temporal", "multiple_options"}
    /\ clarification.confidence > 7

Outcome(kind, text, calls, retrieved, clarification, messages) ==
    [kind |-> kind, text |-> text, calls |-> calls, chunks |-> retrieved,
     clarification |-> clarification, messages |-> messages]

\* llm_service.get_response, called to rewrite the question and to answer it
CALL_rewrite == "get_response (rewrite)"
CALL_answer == "get_response (answer)"

GenerateCalls == <<CALL_answer>>

\* VectorStore.search and search_with_filter as a request meets them: one
\* call of generate_embedding, then the SELECT
SearchCalls(env) ==
    IF env.embedding = "fails" THEN <<"generate_embedding">>
    ELSE <<"generate_embedding", "select">>

\* FocalAgent.run
FocalAgent_run(question, env) ==
    LET tool == pick_tool(question)
    IN  IF tool = NoTool
        THEN [tool |-> NoTool, chunks |-> <<>>, calls |-> <<"pick_tool">>]
        ELSE IF env.embedding = "fails"
        THEN [tool |-> tool, chunks |-> <<>>,
              calls |-> <<"pick_tool">> \o SearchCalls(env)]
        ELSE [tool |-> tool,
              chunks |-> IF tool \in {"pauta", "ata", "resolucao", "portaria"}
                         THEN env.filtered ELSE env.results,
              calls |-> <<"pick_tool">> \o SearchCalls(env)]


\* ChatService.answer, steps 2 to 7
ChatService_pipeline(user_message, env) ==
    LET search_query ==
            IF env.rewriter = "llm" /\ env.llm = "ok" THEN env.rewritten
            ELSE user_message
        rewrite_calls ==
            IF env.rewriter = "none" THEN <<>>
            ELSE IF env.rewriter = "llm" THEN <<"rewriter.enrich", CALL_rewrite>>
            ELSE <<"rewriter.enrich">>
        agent_result == FocalAgent_run(search_query, env)
        retrieved == IF env.agent THEN agent_result.chunks ELSE env.results
        agent_tool == IF env.agent THEN agent_result.tool ELSE NoTool
        search_calls == IF env.agent THEN agent_result.calls ELSE SearchCalls(env)
        has_facts == retrieved # <<>> /\ env.facts
        consulted == env.clarifier.kind # "none" /\ retrieved # <<>>
        clarification == IF consulted THEN env.clarifier.returns ELSE NotConsulted
        clarify_calls == IF consulted THEN <<"check_clarification">> ELSE <<>>
        messages ==
            PromptEnricher_enrich(retrieved, env.rewriter # "none", has_facts, agent_tool)
        upto_search == rewrite_calls \o search_calls
        upto_clarify == upto_search \o clarify_calls
        upto_generate == upto_clarify \o <<"enricher.enrich">> \o GenerateCalls
    IN  IF env.rewriter = "no_llm"
        THEN Outcome("raised", None, rewrite_calls, <<>>, NotConsulted, NoMessages)
        ELSE IF ~env.agent /\ env.embedding = "fails"
        THEN Outcome("raised", None, upto_search, <<>>, NotConsulted, NoMessages)
        ELSE IF consulted /\ env.clarifier.kind = "ClarificationAgent"
        THEN Outcome("raised", None, upto_clarify, retrieved, NotConsulted, NoMessages)
        ELSE IF Interrupts(clarification)
        THEN Outcome("clarification", TXT_clarification, upto_clarify, retrieved,
                     clarification, NoMessages)
        ELSE IF env.llm = "ok"
        THEN Outcome("generated", env.answer, upto_generate, retrieved, clarification,
                     messages)
        ELSE Outcome("llm_error", TXT_erro_gerar \o ErrText, upto_generate, retrieved,
                     clarification, messages)

\* app.py, Step 2: the document type the search is restricted to
app_filters(prompt, search_query) ==
    LET original_lower == LowerText(prompt)
        enhanced_lower == LowerText(search_query)
        In(word) == Contains(original_lower, word) \/ Contains(enhanced_lower, word)
    IN  IF In(TW_pauta) THEN "pauta"
        ELSE IF In(TW_ata) THEN "ata"
        ELSE IF In(T_resolucao_acc) \/ In(T_resolucao) THEN "resolucao"
        ELSE IF In(AW_regimento) \/ In(AW_estatuto) THEN "regimento"
        ELSE NULL

\* app.py, RAG PIPELINE
app_pipeline(prompt, env) ==
    LET search_query == IF env.llm = "ok" THEN env.rewritten ELSE prompt
        enhance_calls == <<"enhance_query", CALL_rewrite>>
        filters == app_filters(prompt, search_query)
        again == filters # NULL /\ Len(env.filtered) < 3
        search_results == IF filters # NULL /\ ~again THEN env.filtered ELSE env.results
        search_calls ==
            IF env.embedding = "fails" THEN SearchCalls(env)
            ELSE IF again THEN SearchCalls(env) \o SearchCalls(env)
            ELSE SearchCalls(env)
        clarification == check_for_ambiguity(prompt, search_results)
        upto_search == enhance_calls \o search_calls
        upto_clarify == upto_search \o <<"check_for_ambiguity">>
        upto_generate == upto_clarify \o GenerateCalls
        messages == <<SEC_system_prompt, SEC_contexto>>
    IN  IF env.embedding = "fails"
        THEN Outcome("search_error", TXT_erro_busca \o ErrText, upto_search, <<>>,
                     NotConsulted, NoMessages)
        ELSE IF search_results = <<>>
        THEN Outcome("no_results", TXT_no_results, upto_search, <<>>, NotConsulted,
                     NoMessages)
        ELSE IF Interrupts(clarification)
        THEN Outcome("clarification", TXT_clarification_app, upto_clarify,
                     search_results, clarification, NoMessages)
        ELSE IF env.llm = "ok"
        THEN Outcome("generated", env.answer, upto_generate, search_results,
                     clarification, messages)
        ELSE IF env.llm = "none"
        THEN Outcome("no_stream", TXT_erro_conectar, upto_generate, search_results,
                     clarification, messages)
        ELSE Outcome("llm_error", TXT_erro_modelo \o ErrText, upto_generate,
                     search_results, clarification, messages)

\* app_enhanced.py, "If not cached, process with RAG"
app_enhanced_pipeline(prompt, env) ==
    LET rewritten == IF env.llm = "ok" THEN env.rewritten ELSE prompt
        rewrite_calls == <<"rewriter.enrich", CALL_rewrite>>
        agent_result == FocalAgent_run(rewritten, env)
        search_results == env.results
        all_chunks ==
            IF agent_result.chunks # <<>> THEN agent_result.chunks ELSE search_results
        has_facts == all_chunks # <<>> /\ env.facts
        clarification == check_for_ambiguity(prompt, all_chunks)
        messages == PromptEnricher_enrich(all_chunks, TRUE, has_facts, agent_result.tool)
        upto_search == rewrite_calls \o agent_result.calls \o SearchCalls(env)
        upto_clarify == upto_search \o <<"derive_counts", "check_for_ambiguity">>
        upto_generate == upto_clarify \o <<"enricher.enrich">> \o GenerateCalls
    IN  IF env.embedding = "fails"
        THEN Outcome("error", TXT_erro_processar \o ErrText, upto_search, <<>>,
                     NotConsulted, NoMessages)
        ELSE IF Interrupts(clarification)
        THEN Outcome("clarification", TXT_clarification, upto_clarify, all_chunks,
                     clarification, NoMessages)
        ELSE IF env.llm = "ok"
        THEN Outcome("generated", env.answer, upto_generate, all_chunks, clarification,
                     messages)
        ELSE Outcome("error", TXT_erro_processar \o ErrText, upto_generate, all_chunks,
                     clarification, messages)

(***************************************************************************)
(* Specification SpecPipeline: one chat request on empty caches, with the  *)
(* providers, the store and the wiring of the ChatService in every state   *)
(* they can be in                                                          *)
(***************************************************************************)
PipePrompts ==
    {AQ_qual_a_pauta, AQ_mostre_a_pauta, AQ_mostre_o_regimento, AQ_qual_o_resultado}

\* the provider's rewriting of a question: the question itself or another one
Rewrites(prompt) == {prompt, Q_pauta_proxima_reuniao}

Providers ==
    {[llm |-> "ok", answer |-> a] : a \in {AnsSim, AnsNaoSei}} \cup
    {[llm |-> "none", answer |-> None], [llm |-> "raises", answer |-> None]}

ROW_pauta_1 == [titulo |-> "Pauta 1", tipo |-> "pauta"]
ROW_pauta_2 == [titulo |-> "Pauta 2", tipo |-> "pauta"]

FoundLists ==
    {<<>>, <<ROW_pauta_1>>, <<ROW_pauta_1, ROW_pauta_2>>,
     <<ROW_pauta_1, ROW_pauta_1, ROW_pauta_1>>,
     <<ROW_pauta_1, ROW_pauta_2, ROW_pauta_1>>}

\* a restricted search finds nothing where the unrestricted one finds nothing
Retrievals ==
    {[embedding |-> "ok", filtered |-> f, results |-> r] :
        <<f, r>> \in {fr \in FoundLists \X FoundLists : fr[2] = <<>> => fr[1] = <<>>}}
    \cup {[embedding |-> "fails", filtered |-> <<>>, results |-> <<>>]}

Env(p, rw, s, facts) ==
    [llm |-> p.llm, answer |-> p.answer, rewritten |-> rw, embedding |-> s.embedding,
     filtered |-> s.filtered, results |-> s.results, facts |-> facts]

\* the clarifier handed to the ChatService: none, the ClarificationAgent
\* (which has no method check_clarification), or an object that has it
Clarifiers ==
    {[kind |-> "none", returns |-> NoClarification],
     [kind |-> "ClarificationAgent", returns |-> NoClarification]} \cup
    {[kind |-> "other", returns |-> r] :
        r \in {NoClarification,
               [ambiguity_type |-> "temporal", confidence |-> CONF_temporal],
               [ambiguity_type |-> "multiple_options",
                confidence |-> CONF_multiple_options]}}

\* the ChatService with its rewriter absent, built on the LLM service, or
\* built without one; with or without a focal agent
Wirings == [agent : BOOLEAN, rewriter : {"none", "llm", "no_llm"}, clarifier : Clarifiers]

ChatServiceEnv(e, w) ==
    [llm |-> e.llm, answer |-> e.answer, rewritten |-> e.rewritten,
     embedding |-> e.embedding, filtered |-> e.filtered, results |-> e.results,
     facts |-> e.facts, agent |-> w.agent, rewriter |-> w.rewriter,
     clarifier |-> w.clarifier]

InitPipeline ==
    /\ TablesEmpty
    /\ req = NoReq
    /\ cache_op = NoOp
    /\ LatestNone
    /\ NormIdle
    /\ ToolIdle
    /\ StoreIdle
    /\ ClarIdle
    /\ EnrIdle
    /\ CntIdle
    /\ EmbIdle
    /\ FlightIdle
    /\ run = NoOp

Ran(orch, prompt, env, out) == [op |-> orch, prompt |-> prompt, env |-> env, out |-> out]

ChatServiceRun(user_id, user_message, env) ==
    /\ run = NoOp
    /\ LET out == ChatService_pipeline(user_message, env)
       IN  /\ Serve("ChatService.answer", user_id, user_message,
                    ChatService_cache_check(user_id, user_message), out,
                    ChatService_stores(out))
           /\ run' = Ran("ChatService.answer", user_message, env, out)
    /\ UNCHANGED <<normVars, toolVars, cacheVars, storeVars, clar, enr, cnt, emb, flightVars>>

AppRun(user_id, prompt, env) ==
    /\ run = NoOp
    /\ LET out == app_pipeline(prompt, env)
       IN  /\ Serve("app.py", user_id, prompt, app_cache_check(user_id, prompt), out,
                    app_stores(out))
           /\ run' = Ran("app.py", prompt, env, out)
    /\ UNCHANGED <<normVars, toolVars, cacheVars, storeVars, clar, enr, cnt, emb, flightVars>>

AppEnhancedRun(user_id, prompt, env) ==
    /\ run = NoOp
    /\ LET out == app_enhanced_pipeline(prompt, env)
       IN  /\ Serve("app_enhanced.py", user_id, prompt,
                    app_enhanced_cache_check(user_id, prompt), out,
                    app_enhanced_stores(out))
           /\ run' = Ran("app_enhanced.py", prompt, env, out)
    /\ UNCHANGED <<normVars, toolVars, cacheVars, storeVars, clar, enr, cnt, emb, flightVars>>

\* one request in a behaviour
NextPipeline ==
    /\ run = NoOp
    /\ \E u \in Users, q \in PipePrompts, p \in Providers, s \in Retrievals,
          facts \in BOOLEAN :
           \E rw \in Rewrites(q) :
               \/ \E w \in Wirings :
                     ChatServiceRun(u, q, ChatServiceEnv(Env(p, rw, s, facts), w))
               \/ AppRun(u, q, Env(p, rw, s, facts))
               \/ AppEnhancedRun(u, q, Env(p, rw, s, facts))

SpecPipeline == InitPipeline /\ [][NextPipeline]_vars

\* the clarification the detector wired to the orchestrator gives for the
\* question and the chunks of the request
Detected ==
    IF run.op = "ChatService.answer" /\ run.env.clarifier.kind = "other"
    THEN run.env.clarifier.returns
    ELSE check_for_ambiguity(run.prompt, run.out.chunks)

HasDetector == run.op = "ChatService.answer" => run.env.clarifier.kind # "none"

ClarificationText ==
    IF run.op = "app.py" THEN TXT_clarification_app ELSE TXT_clarification

AnswerRequested == \E i \in 1..Len(run.out.calls) : run.out.calls[i] = CALL_answer

\* C12: in every orchestrator a clarification with confidence above 0.7 is
\* the response of the request and no answer is generated; a clarification
\* with confidence exactly 0.7 does not interrupt, and generation proceeds.
C12_ClarificationAboveThresholdInterrupts ==
    (run # NoOp /\ HasDetector /\ run.out.chunks # <<>>) =>
        /\ (Detected # NoClarification /\ Detected.confidence > 7) =>
              /\ req.response = ClarificationText
              /\ ~AnswerRequested
        /\ (Detected # NoClarification /\ Detected.confidence = 7) =>
              /\ req.response # ClarificationText
              /\ AnswerRequested

\* retrieval ran, the embedding provider answered, and no chunk came back
ZeroChunks ==
    /\ run # NoOp
    /\ run.env.embedding = "ok"
    /\ run.out.chunks = <<>>
    /\ run.op = "ChatService.answer" => run.env.rewriter # "no_llm"

\* the response says that nothing was found, or the system message handed to
\* generation carries the instruction to say so
NoBasisSignal ==
    \/ req.response = TXT_no_results
    \/ \E i \in 1..Len(run.out.messages) : run.out.messages[i] \in {SEC_fontes, SEC_contexto}

\* C13: whenever retrieval returns zero chunks, every orchestrator completes
\* the request without an exception and surfaces an explicit "no documentary
\* basis found" signal, as the response or in the prompt handed to generation.
C13_ZeroChunksSurfaceNoBasis ==
    ZeroChunks => (run.out.kind # "raised" /\ NoBasisSignal)

(***************************************************************************)
(* SemanticRewriter (agents/semantic_rewriter.py): heuristic terms, the     *)
(* rewriting by the provider, and the enrichment built from both.           *)
(***************************************************************************)
\* SemanticRewriter.keyword_map: each key with its expansions
keyword_map ==
    <<[key |-> <<"p", "a", "u", "t", "a">>,
       expansions |-> {<<"p", "a", "u", "t", "a">>, <<"a", "g", "e", "n", "d", "a">>,
                       <<"o", "r", "d", "e", "m", " ", "d", "o", " ", "d", "i", "a">>,
                       <<"c", "a", "l", "e", "n", "d", "a'", "r", "i", "o">>}],
      [key |-> <<"a", "t", "a">>,
       expansions |-> {<<"a", "t", "a">>, <<"s", "e", "s", "s", "a~", "o">>,
                       <<"r", "e", "u", "n", "i", "a~", "o">>,
                       <<"r", "e", "g", "i", "s", "t", "r", "o", "s">>,
                       <<"a", "s", "s", "i", "n", "a", "t", "u", "r", "a", "s">>}],
      [key |-> <<"v", "o", "t", "a", "c,", "a~", "o">>,
       expansions |-> {<<"v", "o", "t", "a", "c,", "a~", "o">>,
                       <<"r", "e", "s", "u", "l", "t", "a", "d", "o">>,
                       <<"q", "u", "o'", "r", "u", "m">>,
                       <<"a", "p", "r", "o", "v", "a", "d", "a">>,
                       <<"u", "n", "a", "n", "i", "m", "i", "d", "a", "d", "e">>,
                       <<"v", "o", "t", "o">>}],
      [key |-> <<"v", "o", "t", "a", "c", "a", "o">>,
       expansions |-> {<<"v", "o", "t", "a", "c,", "a~", "o">>,
                       <<"r", "e", "s", "u", "l", "t", "a", "d", "o">>,
                       <<"q", "u", "o'", "r", "u", "m">>,
                       <<"a", "p", "r", "o", "v", "a", "d", "a">>,
                       <<"u", "n", "a", "n", "i", "m", "i", "d", "a", "d", "e">>,
                       <<"v", "o", "t", "o">>}],
      [key |-> <<"r", "e", "s", "o", "l", "u", "c,", "a~", "o">>,
       expansions |-> {<<"r", "e", "s", "o", "l", "u", "c,", "a~", "o">>,
                       <<"n", "u'", "m", "e", "r", "o">>,
                       <<"v", "i", "g", "e^", "n", "c", "i", "a">>,
                       <<"e", "m", "e", "n", "t", "a">>,
                       <<"d", "e", "l", "i", "b", "e", "r", "a", "c,", "a~", "o">>}],
      [key |-> <<"r", "e", "s", "o", "l", "u", "c", "a", "o">>,
       expansions |-> {<<"r", "e", "s", "o", "l", "u", "c,", "a~", "o">>,
                       <<"n", "u'", "m", "e", "r", "o">>,
                       <<"v", "i", "g", "e^", "n", "c", "i", "a">>,
                       <<"e", "m", "e", "n", "t", "a">>,
                       <<"d", "e", "l", "i", "b", "e", "r", "a", "c,", "a~", "o">>}],
      [key |-> <<"p", "o", "r", "t", "a", "r", "i", "a">>,
       expansions |-> {<<"p", "o", "r", "t", "a", "r", "i", "a">>,
                       <<"t", "u", "r", "m", "a", "s">>,
                       <<"n", "u'", "m", "e", "r", "o", " ", "d", "a", " ", "p", "o", "r", "t", "a", "r", "i", "a">>}],
      [key |-> <<"r", "e", "g", "i", "m", "e", "n", "t", "o">>,
       expansions |-> {<<"r", "e", "g", "i", "m", "e", "n", "t", "o">>,
                       <<"e", "s", "t", "a", "t", "u", "t", "o">>,
                       <<"n", "o", "r", "m", "a", "s">>,
                       <<"r", "e", "g", "u", "l", "a", "m", "e", "n", "t", "o">>}],
      [key |-> <<"c", "o", "n", "s", "e", "l", "h", "o">>,
       expansions |-> {<<"C", "O", "N", "S", "U", "N">>,
                       <<"C", "O", "N", "S", "U", "N", "I">>, <<"C", "E", "P", "E">>,
                       <<"C", "o", "n", "s", "e", "l", "h", "o", " ", "U", "n", "i", "v", "e", "r", "s", "i", "t", "a'", "r", "i", "o">>}],
      [key |-> <<"p", "r", "e", "s", "i", "d", "e", "n", "t", "e">>,
       expansions |-> {
                       <<"p", "r", "e", "s", "i", "d", "e", "n", "t", "e", " ", "d", "a", " ", "s", "e", "s", "s", "a~", "o">>,
                       <<"q", "u", "e", "m", " ", "p", "r", "e", "s", "i", "d", "i", "u">>,
                       <<"r", "e", "i", "t", "o", "r">>}],
      [key |-> <<"c", "o", "n", "v", "o", "c", "a", "c,", "a~", "o">>,
       expansions |-> {<<"c", "o", "n", "v", "o", "c", "a", "c,", "a~", "o">>,
                       <<"d", "a", "t", "a", " ", "d", "a", " ", "r", "e", "u", "n", "i", "a~", "o">>,
                       <<"e", "n", "v", "i", "o">>}],
      [key |-> <<"c", "o", "n", "v", "o", "c", "a", "c", "a", "o">>,
       expansions |-> {<<"c", "o", "n", "v", "o", "c", "a", "c,", "a~", "o">>,
                       <<"d", "a", "t", "a", " ", "d", "a", " ", "r", "e", "u", "n", "i", "a~", "o">>,
                       <<"e", "n", "v", "i", "o">>}]>>

\* the expansions of keyword_map in the order sorted() gives a list of str:
\* by code point, capitals before small letters
TermOrder ==
    <<<<"C", "E", "P", "E">>,
      <<"C", "O", "N", "S", "U", "N">>,
      <<"C", "O", "N", "S", "U", "N", "I">>,
      <<"C", "o", "n", "s", "e", "l", "h", "o", " ", "U", "n", "i", "v", "e", "r", "s", "i", "t", "a'", "r", "i", "o">>,
      <<"a", "g", "e", "n", "d", "a">>,
      <<"a", "p", "r", "o", "v", "a", "d", "a">>,
      <<"a", "s", "s", "i", "n", "a", "t", "u", "r", "a", "s">>,
      <<"a", "t", "a">>,
      <<"c", "a", "l", "e", "n", "d", "a'", "r", "i", "o">>,
      <<"c", "o", "n", "v", "o", "c", "a", "c,", "a~", "o">>,
      <<"d", "a", "t", "a", " ", "d", "a", " ", "r", "e", "u", "n", "i", "a~", "o">>,
      <<"d", "e", "l", "i", "b", "e", "r", "a", "c,", "a~", "o">>,
      <<"e", "m", "e", "n", "t", "a">>,
      <<"e", "n", "v", "i", "o">>,
      <<"e", "s", "t", "a", "t", "u", "t", "o">>,
      <<"n", "o", "r", "m", "a", "s">>,
      <<"n", "u'", "m", "e", "r", "o">>,
      <<"n", "u'", "m", "e", "r", "o", " ", "d", "a", " ", "p", "o", "r", "t", "a", "r", "i", "a">>,
      <<"o", "r", "d", "e", "m", " ", "d", "o", " ", "d", "i", "a">>,
      <<"p", "a", "u", "t", "a">>,
      <<"p", "o", "r", "t", "a", "r", "i", "a">>,
      <<"p", "r", "e", "s", "i", "d", "e", "n", "t", "e", " ", "d", "a", " ", "s", "e", "s", "s", "a~", "o">>,
      <<"q", "u", "e", "m", " ", "p", "r", "e", "s", "i", "d", "i", "u">>,
      <<"q", "u", "o'", "r", "u", "m">>,
      <<"r", "e", "g", "i", "m", "e", "n", "t", "o">>,
      <<"r", "e", "g", "i", "s", "t", "r", "o", "s">>,
      <<"r", "e", "g", "u", "l", "a", "m", "e", "n", "t", "o">>,
      <<"r", "e", "i", "t", "o", "r">>,
      <<"r", "e", "s", "o", "l", "u", "c,", "a~", "o">>,
      <<"r", "e", "s", "u", "l", "t", "a", "d", "o">>,
      <<"r", "e", "u", "n", "i", "a~", "o">>,
      <<"s", "e", "s", "s", "a~", "o">>,
      <<"t", "u", "r", "m", "a", "s">>,
      <<"u", "n", "a", "n", "i", "m", "i", "d", "a", "d", "e">>,
      <<"v", "i", "g", "e^", "n", "c", "i", "a">>,
      <<"v", "o", "t", "a", "c,", "a~", "o">>,
      <<"v", "o", "t", "o">>>>

Digits == {"0", "1", "2", "3", "4", "5", "6", "7", "8", "9"}

\* the regular expressions of extract_heuristics, "d" standing for \d
RE_date == <<"d", "d", "/", "d", "d", "/", "d", "d", "d", "d">>
RE_date_short == <<"d", "d", "/", "d", "d", "d", "d">>
RE_number3 == <<"d", "d", "d">>
RE_number4 == <<"d", "d", "d", "d">>

\* \b at both ends of q[i..j]: the neighbours, if any, are not \w
WordBoundaries(q, i, j) ==
    /\ i = 1 \/ ~IsWord(q[i - 1])
    /\ j = Len(q) \/ ~IsWord(q[j + 1])

\* re.findall(r'\b<pattern>\b', q) as a set
FindAll(pattern, q) ==
    {SubSeq(q, i, i + Len(pattern) - 1) :
        i \in {k \in 1..Len(q) :
                 /\ k + Len(pattern) - 1 <= Len(q)
                 /\ \A j \in 1..Len(pattern) :
                        IF pattern[j] = "d" THEN q[k + j - 1] \in Digits
                                            ELSE q[k + j - 1] = pattern[j]
                 /\ WordBoundaries(q, k, k + Len(pattern) - 1)}}

\* code points of the characters of a date or number: "/" before the digits
CodePoint(c) ==
    CASE c = "/" -> 47 [] c = "0" -> 48 [] c = "1" -> 49 [] c = "2" -> 50
      [] c = "3" -> 51 [] c = "4" -> 52 [] c = "5" -> 53 [] c = "6" -> 54
      [] c = "7" -> 55 [] c = "8" -> 56 [] c = "9" -> 57

\* a < b on Python strings
RECURSIVE StrLess(_, _)
StrLess(a, b) ==
    IF b = <<>> THEN FALSE
    ELSE IF a = <<>> THEN TRUE
    ELSE IF Head(a) = Head(b) THEN StrLess(Tail(a), Tail(b))
    ELSE CodePoint(Head(a)) < CodePoint(Head(b))

\* sorted(terms) for a set of dates and numbers
RECURSIVE Sorted(_)
Sorted(terms) ==
    IF terms = {} THEN <<>>
    ELSE LET least == CHOOSE t \in terms : \A u \in terms \ {t} : StrLess(t, u)
         IN  <<least>> \o Sorted(terms \ {least})

\* sep.join(texts)
RECURSIVE Join(_, _)
Join(sep, texts) ==
    IF texts = <<>> THEN <<>>
    ELSE IF Len(texts) = 1 THEN texts[1]
    ELSE texts[1] \o sep \o Join(sep, Tail(texts))

\* sorted(set(terms)): dates and numbers start with a digit and come before
\* every expansion, which starts with a letter
extract_heuristics(question) ==
    LET q == LowerText(question)
        expansions == SelectSeq(TermOrder, LAMBDA t :
                          \E i \in DOMAIN keyword_map :
                              /\ Contains(q, keyword_map[i].key)
                              /\ t \in keyword_map[i].expansions)
        dates == FindAll(RE_date, q)
        dates_short == FindAll(RE_date_short, q)
        numbers == FindAll(RE_number3, q) \cup FindAll(RE_number4, q)
    IN  Sorted(dates \cup dates_short \cup numbers) \o expansions

\* what llm_rewrite returns for a provider that is absent, raises, hands
\* back something that is no stream of chunks (get_response returns None
\* on an error of the client), or streams a text
llm_rewrite(question, llm) ==
    CASE llm.state = "none" -> None
      [] llm.state = "raises" -> None
      [] llm.state = "malformed" -> None
      [] llm.state = "ok" -> Strip(llm.text)

SEP_comma == <<",", " ">>
SEP_space == <<" ">>
TXT_palavras_chave ==
    <<".", " ", "P", "a", "l", "a", "v", "r", "a", "s", "-", "c", "h", "a", "v", "e", ":",
      " ">>

generate_alternates(question, heuristics) ==
    IF heuristics = <<>> THEN <<>>
    ELSE <<question \o SEP_space \o Join(SEP_space, TopN(heuristics, 5))>> \o
         (IF Len(heuristics) >= 2 THEN <<Join(SEP_comma, TopN(heuristics, 4))>> ELSE <<>>)

\* confidence in tenths
CONF_heuristics == 9
CONF_no_heuristics == 6
CONF_llm_bonus == 1
CONF_max == 10

Min(a, b) == IF a < b THEN a ELSE b

\* SemanticRewriter.enrich. llm_result is bound only where the rewriter has a
\* provider and use_llm is set; step 5 reads it whenever use_llm is set.
SemanticRewriter_enrich(question, use_llm, llm) ==
    LET heuristics == extract_heuristics(question)
        bound == use_llm /\ llm.state # "none"
        llm_result == llm_rewrite(question, llm)
        rewritten1 == IF bound /\ Truthy(llm_result) THEN llm_result ELSE question
        rewritten == IF heuristics # <<>>
                     THEN rewritten1 \o TXT_palavras_chave \o
                          Join(SEP_comma, TopN(heuristics, 5))
                     ELSE rewritten1
        alternates == generate_alternates(question, heuristics)
        confidence == IF heuristics # <<>> THEN CONF_heuristics ELSE CONF_no_heuristics
    IN  IF use_llm /\ ~bound
        THEN [kind |-> "raised", error |-> "UnboundLocalError"]
        ELSE [kind |-> "returned", rewritten |-> rewritten, heuristics |-> heuristics,
              alternates |-> alternates,
              confidence |-> IF use_llm /\ Truthy(llm_result)
                             THEN Min(confidence + CONF_llm_bonus, CONF_max)
                             ELSE confidence]

(***************************************************************************)
(* HyDEQueryExpander (services/hyde_query_expander.py): the analysis of    *)
(* the question and the hypothetical answer, both asked of a provider      *)
(* through its method generate.                                             *)
(***************************************************************************)
\* "Ata 123 de 12/03/2024"
EQ_ata_123 ==
    <<"A", "t", "a", " ", "1", "2", "3", " ", "d", "e", " ", "1", "2", "/", "0", "3", "/",
      "2", "0", "2", "4">>
\* "Resolução 45/2023 do conselho"
EQ_resolucao_45 ==
    <<"R", "e", "s", "o", "l", "u", "c,", "a~", "o", " ", "4", "5", "/", "2", "0", "2",
      "3", " ", "d", "o", " ", "c", "o", "n", "s", "e", "l", "h", "o">>
\* " Pauta da reunião do CONSUN "
RW_pauta_consun ==
    <<" ", "P", "a", "u", "t", "a", " ", "d", "a", " ", "r", "e", "u", "n", "i", "a~", "o",
      " ", "d", "o", " ", "C", "O", "N", "S", "U", "N", " ">>
\* "indefinido"
TXT_indefinido == <<"i", "n", "d", "e", "f", "i", "n", "i", "d", "o">>
\* "resposta formal"
TXT_resposta_formal ==
    <<"r", "e", "s", "p", "o", "s", "t", "a", " ", "f", "o", "r", "m", "a", "l">>
\* "CEPE"
TXT_CEPE == <<"C", "E", "P", "E">>
\* "Conforme documentos do "
TXT_conforme ==
    <<"C", "o", "n", "f", "o", "r", "m", "e", " ", "d", "o", "c", "u", "m", "e", "n", "t",
      "o", "s", " ", "d", "o", " ">>
\* "regimento"
DT_regimento == <<"r", "e", "g", "i", "m", "e", "n", "t", "o">>
\* "ata"
DT_ata == <<"a", "t", "a">>
\* "pauta"
DT_pauta == <<"p", "a", "u", "t", "a">>
\* "resolucao"
DT_resolucao == <<"r", "e", "s", "o", "l", "u", "c", "a", "o">>
\* " A ata registra a pauta. "
HY_a_ata_registra ==
    <<" ", "A", " ", "a", "t", "a", " ", "r", "e", "g", "i", "s", "t", "r", "a", " ", "a",
      " ", "p", "a", "u", "t", "a", ".", " ">>

\* a key the JSON object does not carry, and a JSON array as a value
Absent == <<"absent">>
JsonList == <<"JSON list">>

\* the keys of DOCUMENT_TYPE_PROMPTS
DOCUMENT_TYPE_PROMPTS == {DT_regimento, DT_ata, DT_pauta, DT_resolucao}

\* dict.setdefault / dict.get with a default
OrDefault(value, default) == IF value = Absent THEN default ELSE value

DefaultAnalysis(query) ==
    [conselho |-> TXT_indefinido, tipo_documento |-> TXT_indefinido, topico |-> query,
     formato_esperado |-> TXT_resposta_formal]

\* _analyze_context: the provider has no method generate (LLMService has
\* only get_response), raises, or returns a response: text that is no JSON
\* (or no text at all), JSON that is no object, or an object
analyze_context(query, provider) ==
    IF provider.state = "returns" /\ provider.json = "object"
    THEN [kind |-> "returned",
          analysis |-> [conselho |-> OrDefault(provider.conselho, TXT_indefinido),
                        tipo_documento |->
                            OrDefault(provider.tipo_documento, TXT_indefinido),
                        topico |-> query,
                        formato_esperado |-> TXT_resposta_formal]]
    ELSE [kind |-> "returned", analysis |-> DefaultAnalysis(query)]

\* f"Conforme documentos do {analysis.get('conselho', 'conselho')}, {query}"
HypothesisTemplate(query, analysis) ==
    TXT_conforme \o analysis.conselho \o SEP_comma \o query

\* _generate_hypothesis: the lookup of the document type in
\* DOCUMENT_TYPE_PROMPTS hashes it, outside the try block; the call of the
\* provider and the strip() of its response are inside
generate_hypothesis(query, analysis, provider) ==
    IF analysis.tipo_documento = JsonList
    THEN [kind |-> "raised", error |-> "TypeError"]
    ELSE IF provider.state = "returns" /\ provider.text # None
    THEN [kind |-> "returned", hypothesis |-> Strip(provider.text)]
    ELSE [kind |-> "returned", hypothesis |-> HypothesisTemplate(query, analysis)]

(***************************************************************************)
(* The enrichment steps, each called once with a question and a provider   *)
(* state chosen by the environment; the hypothesis is generated from the   *)
(* analysis of the step before, as expand_query does.                       *)
(***************************************************************************)
EnrichQuestions ==
    {AQ_qual_a_pauta, AQ_onde_foi_a_reuniao, AQ_mostre_o_regimento, AQ_QUAL_A_ATA,
     EQ_ata_123, EQ_resolucao_45}

\* the provider of the SemanticRewriter
LlmStates ==
    {[state |-> s, text |-> None] : s \in {"none", "raises", "malformed"}} \cup
    {[state |-> "ok", text |-> t] : t \in {RW_pauta_consun, <<" ", " ">>}}

\* the provider of the HyDEQueryExpander at the analysis
AnalysisProviders ==
    {[state |-> s, json |-> "none", conselho |-> Absent, tipo_documento |-> Absent] :
        s \in {"no_generate", "raises"}} \cup
    {[state |-> "returns", json |-> j, conselho |-> Absent, tipo_documento |-> Absent] :
        j \in {"invalid", "not_object"}} \cup
    {[state |-> "returns", json |-> "object", conselho |-> c, tipo_documento |-> t] :
        c \in {Absent, TXT_CEPE}, t \in {Absent, DT_ata, TXT_indefinido, JsonList}}

\* the same provider at the hypothesis: one without generate stays so
HypothesisProviders(before) ==
    IF before.state = "no_generate"
    THEN {[state |-> "no_generate", text |-> None]}
    ELSE {[state |-> "raises", text |-> None], [state |-> "returns", text |-> None],
          [state |-> "returns", text |-> HY_a_ata_registra]}

InitEnrich ==
    /\ TablesEmpty
    /\ req = NoReq
    /\ cache_op = NoOp
    /\ LatestNone
    /\ NormIdle
    /\ ToolIdle
    /\ StoreIdle
    /\ StagesIdle

EnrichQuery(question, use_llm, llm) ==
    /\ enr = NoOp
    /\ enr' = [op |-> "SemanticRewriter.enrich", question |-> question,
               use_llm |-> use_llm, llm |-> llm,
               out |-> SemanticRewriter_enrich(question, use_llm, llm)]
    /\ UNCHANGED <<clar, run, cnt, emb, notStage>>

AnalyzeContext(query, provider) ==
    /\ enr = NoOp
    /\ enr' = [op |-> "_analyze_context", query |-> query, provider |-> provider,
               out |-> analyze_context(query, provider)]
    /\ UNCHANGED <<clar, run, cnt, emb, notStage>>

GenerateHypothesis(provider) ==
    /\ enr.op = "_analyze_context"
    /\ enr' = [op |-> "_generate_hypothesis", query |-> enr.query,
               provider |-> provider, analysis |-> enr.out.analysis,
               out |-> generate_hypothesis(enr.query, enr.out.analysis, provider)]
    /\ UNCHANGED <<clar, run, cnt, emb, notStage>>

NextEnrich ==
    \/ \E q \in EnrichQuestions, use_llm \in BOOLEAN, llm \in LlmStates :
          EnrichQuery(q, use_llm, llm)
    \/ \E q \in EnrichQuestions, p \in AnalysisProviders : AnalyzeContext(q, p)
    \/ /\ enr.op = "_analyze_context"
       /\ \E p \in HypothesisProviders(enr.provider) : GenerateHypothesis(p)

SpecEnrich == InitEnrich /\ [][NextEnrich]_vars

\* the rewriting by the provider failed or was unavailable
RewriteUnavailable == ~Truthy(llm_rewrite(enr.question, enr.llm))

\* the search query starts with the question as the user typed it
BuiltFromQuestion == SubSeq(enr.out.rewritten, 1, Len(enr.question)) = enr.question

\* the provider gave no hypothesis
GenerationFailed == ~(enr.provider.state = "returns" /\ enr.provider.text # None)

\* C14: in every state of the provider, SemanticRewriter.enrich(question,
\* use_llm=True) and the two HyDE steps return a result instead of raising;
\* where the rewriting fails or is unavailable the search query is built from
\* the unrewritten question, and where the generation of the hypothesis
\* fails the hypothesis is the template of the question and the council.
C14_EnrichmentNeverRaises ==
    /\ (enr.op = "SemanticRewriter.enrich" /\ enr.use_llm) =>
          /\ enr.out.kind = "returned"
          /\ RewriteUnavailable => BuiltFromQuestion
    /\ enr.op = "_analyze_context" => enr.out.kind = "returned"
    /\ enr.op = "_generate_hypothesis" =>
          /\ enr.out.kind = "returned"
          /\ GenerationFailed =>
                enr.out.hypothesis = HypothesisTemplate(enr.query, enr.analysis)

(***************************************************************************)
(* A failure of the embedding provider during the search of a request.     *)
(***************************************************************************)
\* the request reached a search, and the embedding provider failed in it
EmbeddingFailedInSearch ==
    /\ run # NoOp
    /\ run.env.embedding = "fails"
    /\ \E i \in 1..Len(run.out.calls) : run.out.calls[i] = "generate_embedding"

\* no search went on to read the store after its embedding call failed
NoResultList ==
    \A i \in 1..Len(run.out.calls) : run.out.calls[i] # "select"

\* the request ended as a failure and no answer was asked of the provider
EndedAsRetrievalFailure ==
    /\ run.out.kind \in {"raised", "search_error", "error"}
    /\ ~AnswerRequested

\* C15: a failure of the embedding provider during a search reaches the
\* orchestrator as a failure of the retrieval: the store reads no result
\* list after the failed call, and the request never goes on as if the
\* search had found nothing.
C15_EmbeddingFailurePropagates ==
    EmbeddingFailedInSearch => (NoResultList /\ EndedAsRetrievalFailure)

(***************************************************************************)
(* VectorStore.search and search_with_filter on any input and any store:   *)
(* queries that are empty, k that is not positive, an embedding provider   *)
(* that fails, chunks whose vector has another dimension than the query's, *)
(* and chunks whose documento_id names no row of documentos.               *)
(***************************************************************************)
\* generate_embedding raised
EmbeddingError == <<"EmbeddingError">>

\* results[:k] for any integer k: a negative k counts from the end
Slice(results, k) ==
    LET n == Len(results)
        stop == IF k >= 0 THEN (IF k < n THEN k ELSE n)
                ELSE (IF n + k > 0 THEN n + k ELSE 0)
    IN  SubSeq(results, 1, stop)

\* the rows of the SELECT; a chunk whose documento_id names no document is
\* not in the join
Fetched(docs, chs, filters, user_id, plan) ==
    LET admitted == {d \in 1..Len(docs) :
                        /\ permission_filter(docs[d], user_id)
                        /\ filters.tipo # NULL => docs[d].tipo = filters.tipo}
    IN  fetchall(plan, docs, chs, admitted)

\* the loop over cur.fetchall(): np.dot raises ValueError on two vectors of
\* different length, and nothing in the loop catches it
Scan(rows, chs, embedding, k) ==
    IF \E i \in 1..Len(rows) : Len(chs[rows[i]].embedding) # Len(embedding)
    THEN [kind |-> "raised", error |-> "ValueError"]
    ELSE [kind |-> "returned",
          results |-> Slice(SortBySimilarity(rows, embedding, chs), k)]

\* VectorStore.search (filters = NoFilters) and VectorStore.search_with_filter
\* from their first line: embedding is what generate_embedding(query) gave,
\* neither query nor k is looked at before the SELECT
VectorStore_search(docs, chs, query, embedding, filters, k, user_id, plan) ==
    IF embedding = EmbeddingError
    THEN [kind |-> "raised", error |-> "EmbeddingError"]
    ELSE Scan(Fetched(docs, chs, filters, user_id, plan), chs, embedding, k)

(***************************************************************************)
(* Specification SpecFaultSearch: one search, with any input, on a store   *)
(* that holds any chunks.                                                   *)
(***************************************************************************)
FaultQueries == {<<>>, <<" ">>, T_pauta}

\* what generate_embedding gives for a query: the local model embeds any
\* text, a remote provider may refuse it or fail
FaultEmbeddings == QueryEmbeddings \cup {EmbeddingError}

FaultKs == {-1, 0, 1, MaxChunks}

DOC_global_ata == [hash_sha256 |-> "h1", tipo |-> "ata", is_global |-> 1, user_id |-> NULL]
DOC_alice_pauta ==
    [hash_sha256 |-> "h2", tipo |-> "pauta", is_global |-> 0, user_id |-> "alice"]

FaultDocTables == {<<>>, <<DOC_global_ata>>, <<DOC_global_ata, DOC_alice_pauta>>}

\* vectors of the dimension of the query, and one of another dimension
FaultVectors == {<<1, 0>>, <<1, 1>>, <<1, 0, 0>>}

FaultChunkRows == [documento_id : DocIds, embedding : FaultVectors]

FaultChunkTables == TextsUpTo(FaultChunkRows, MaxChunks)

FaultRequesters == {"alice", NoUser}

FaultFilters == {NoFilters, [tipo |-> "ata"]}

InitFaultSearch ==
    /\ documentos \in FaultDocTables
    /\ chunks \in FaultChunkTables
    /\ store_op = NoOp
    /\ NormIdle
    /\ ToolIdle
    /\ CacheIdle
    /\ OrchIdle
    /\ StagesIdle

FaultSearch(query, embedding, filters, k, user_id, plan) ==
    /\ store_op = NoOp
    /\ store_op' = [op |-> IF filters = NoFilters THEN "search" ELSE "search_with_filter",
                    query |-> query, query_embedding |-> embedding, k |-> k,
                    user_id |-> user_id, filters |-> filters, plan |-> plan,
                    out |-> VectorStore_search(documentos, chunks, query, embedding,
                                               filters, k, user_id, plan)]
    /\ UNCHANGED <<documentos, chunks, notStore>>

NextFaultSearch ==
    /\ store_op = NoOp
    /\ \E query \in FaultQueries, embedding \in FaultEmbeddings, filters \in FaultFilters,
          k \in FaultKs, u \in FaultRequesters, plan \in Plans :
          FaultSearch(query, embedding, filters, k, u, plan)

SpecFaultSearch == InitFaultSearch /\ [][NextFaultSearch]_vars

\* the query is empty once stripped, or k is not positive
InvalidSearchInput == Strip(store_op.query) = <<>> \/ store_op.k <= 0

\* the search was refused for its input
RejectedAsInvalid == store_op.out.kind = "raised" /\ store_op.out.error = "ValidationError"

\* C16: a search with an empty query or with k <= 0 is rejected at once with
\* an error that describes the input, and returns no results; k is never
\* reinterpreted.
C16_InvalidSearchRejected ==
    (store_op # NoOp /\ InvalidSearchInput) => RejectedAsInvalid

\* a chunk the search has to rank: its document exists and is admitted, and
\* its vector has the dimension of the query vector
Rankable(c) ==
    /\ HasDoc(c)
    /\ permission_filter(DocOf(c), store_op.user_id)
    /\ store_op.filters.tipo # NULL => DocOf(c).tipo = store_op.filters.tipo
    /\ Len(chunks[c].embedding) = Len(store_op.query_embedding)

\* the rankable chunks in the order of the plan, ranked, the first k of them
RankedRemaining ==
    LET rows == SelectSeq(Fetched(documentos, chunks, store_op.filters,
                                  store_op.user_id, store_op.plan), Rankable)
    IN  Slice(SortBySimilarity(rows, store_op.query_embedding, chunks), store_op.k)

\* a search with valid input whose query was embedded
ValidSearchRan ==
    /\ store_op # NoOp
    /\ ~InvalidSearchInput
    /\ store_op.query_embedding # EmbeddingError

\* C17: a chunk whose vector has another dimension than the query vector, or
\* whose document is missing, is skipped during the scan: the search returns
\* the remaining admissible chunks, ranked, and does not fail.
C17_BadChunkSkipped ==
    ValidSearchRan =>
        /\ store_op.out.kind = "returned"
        /\ store_op.out.results = RankedRemaining

(***************************************************************************)
(* Ingest under changing embedding settings: VectorStore.add_documents     *)
(* with an embedding provider that can fail, add_chunks_to_vector_store,   *)
(* and the EmbeddingMigrationManager (utils/embedding_migration.py).       *)
(***************************************************************************)
\* settings.embedding_provider, embedding_model and embedding_dimension
CFG_local == [provider |-> "local", model |-> "all-MiniLM-L6-v2", dimension |-> 2]
CFG_openai == [provider |-> "openai", model |-> "text-embedding-3-small", dimension |-> 3]

EmbeddingConfigs == {CFG_local, CFG_openai}

\* generate_embedding / batch_embed of a chunk text under the settings: a
\* vector of the settings' dimension
Embed(text, config) ==
    LET v == IF text = "t1" THEN <<1, 0>> ELSE <<1, 1>>
    IN  IF config.dimension = 2 THEN v ELSE v \o <<0>>

\* the chunks the document processor cuts a document into, by its content
ChunkTexts(hash_sha256) == IF hash_sha256 = "h1" THEN <<"t1">> ELSE <<"t1", "t2">>

\* get_current_metadata() of a table embedding_metadata without rows
NoMetadata == [provider |-> "None", model |-> "None", dimension |-> 0]

\* needs_migration(): the last row of embedding_metadata against the settings
needs_migration(saved, settings) ==
    IF saved = NoMetadata THEN FALSE
    ELSE \/ saved.provider # settings.provider
         \/ saved.model # settings.model
         \/ saved.dimension # settings.dimension

\* the documents of a batch with their chunks embedded under the settings
Embedded(batch, config) ==
    [i \in 1..Len(batch) |->
        [hash_sha256 |-> batch[i].hash_sha256, tipo |-> batch[i].tipo,
         chunks |-> [j \in 1..Len(ChunkTexts(batch[i].hash_sha256)) |->
                        Embed(ChunkTexts(batch[i].hash_sha256)[j], config)]]]

\* the document at position i of the batch is not skipped as already stored:
\* its hash is in no row and in no earlier document of the batch
IsNew(docs, batch, i) ==
    /\ \A d \in 1..Len(docs) : docs[d].hash_sha256 # batch[i].hash_sha256
    /\ \A j \in 1..(i - 1) : batch[j].hash_sha256 # batch[i].hash_sha256

\* add_documents where batch_embed raises for the document at position
\* fail_at (0: for none). The exception leaves the `with` block of the
\* connection, which rolls the transaction back: no row of the call stays.
add_documents_embedding(docs, chs, batch, owner, config, fail_at) ==
    IF fail_at \in 1..Len(batch) /\ IsNew(docs, batch, fail_at)
    THEN [kind |-> "raised", documentos |-> docs, chunks |-> chs]
    ELSE LET added == add_documents(docs, chs, Embedded(batch, config), owner)
         IN  [kind |-> "returned", documentos |-> added.documentos,
              chunks |-> added.chunks]

\* add_chunks_to_vector_store: every embedding is generated before the first
\* INSERT; documento_id is metadata.get("doc_id", 0)
add_chunks_to_vector_store(chs, doc_id, texts, config, fails) ==
    IF fails THEN [kind |-> "raised", chunks |-> chs]
    ELSE [kind |-> "returned",
          chunks |-> chs \o [i \in 1..Len(texts) |->
                                [documento_id |-> doc_id,
                                 embedding |-> Embed(texts[i], config)]]]

(***************************************************************************)
(* Specification SpecIngest                                                 *)
(***************************************************************************)
IngestDocuments ==
    {[hash_sha256 |-> "h1", tipo |-> "ata"], [hash_sha256 |-> "h2", tipo |-> "pauta"]}

IngestBatches ==
    {<<d>> : d \in IngestDocuments} \cup {<<d1, d2>> : d1, d2 \in IngestDocuments}

IngestOwner == [is_global |-> 1, user_id |-> NULL]

\* the doc_id of the metadata handed to add_chunks_to_vector_store: absent
\* (0), or the id of a row of another table
HelperDocIds == {0, 1}

HelperTexts == {<<"t1">>, <<"t1", "t2">>}

ingestOthers ==
    <<normVars, toolVars, tableVars, cacheVars, orchVars, clar, run, enr, cnt, flightVars>>

InitIngest ==
    /\ StoreIdle
    /\ emb = [settings |-> CFG_local, saved |-> NoMetadata]
    /\ NormIdle
    /\ ToolIdle
    /\ CacheIdle
    /\ OrchIdle
    /\ ClarIdle /\ RunIdle /\ EnrIdle /\ CntIdle
    /\ FlightIdle

IngestAddDocuments(batch, fail_at) ==
    LET out == add_documents_embedding(documentos, chunks, batch, IngestOwner,
                                       emb.settings, fail_at)
    IN  /\ Len(out.chunks) <= MaxChunks
        /\ documentos' = out.documentos
        /\ chunks' = out.chunks
        /\ store_op' = [op |-> "add_documents", kind |-> out.kind]
        /\ UNCHANGED <<emb, ingestOthers>>

IngestAddChunks(doc_id, texts, fails) ==
    LET out == add_chunks_to_vector_store(chunks, doc_id, texts, emb.settings, fails)
    IN  /\ Len(out.chunks) <= MaxChunks
        /\ chunks' = out.chunks
        /\ store_op' = [op |-> "add_chunks_to_vector_store", kind |-> out.kind]
        /\ UNCHANGED <<documentos, emb, ingestOthers>>

\* EmbeddingMigrationManager.clear_embeddings: DELETE FROM chunks
ClearEmbeddings ==
    /\ chunks' = <<>>
    /\ store_op' = [op |-> "clear_embeddings", kind |-> "returned"]
    /\ UNCHANGED <<documentos, emb, ingestOthers>>

\* the .env is edited and the application restarted
ChangeSettings(config) ==
    /\ config # emb.settings
    /\ emb' = [emb EXCEPT !.settings = config]
    /\ store_op' = [op |-> "change_settings", kind |-> "returned"]
    /\ UNCHANGED <<documentos, chunks, ingestOthers>>

\* check_and_migrate(): the first run saves the settings; a run that needs a
\* migration and is confirmed backs up, clears the embeddings and calls
\* reprocess_documents, whose SELECT names a column chunks does not have:
\* the migration ends there and the saved row stays
CheckAndMigrate(confirmed) ==
    /\ IF ~needs_migration(emb.saved, emb.settings)
       THEN /\ emb' = IF emb.saved = NoMetadata THEN [emb EXCEPT !.saved = emb.settings]
                      ELSE emb
            /\ chunks' = chunks
            /\ store_op' = [op |-> "check_and_migrate", kind |-> "returned"]
       ELSE /\ emb' = emb
            /\ chunks' = IF confirmed THEN <<>> ELSE chunks
            /\ store_op' = [op |-> "check_and_migrate",
                            kind |-> IF confirmed THEN "failed" ELSE "cancelled"]
    /\ UNCHANGED <<documentos, ingestOthers>>

NextIngest ==
    \/ \E batch \in IngestBatches, fail_at \in 0..2 : IngestAddDocuments(batch, fail_at)
    \/ \E doc_id \in HelperDocIds, texts \in HelperTexts, fails \in BOOLEAN :
          IngestAddChunks(doc_id, texts, fails)
    \/ ClearEmbeddings
    \/ \E config \in EmbeddingConfigs : ChangeSettings(config)
    \/ \E confirmed \in BOOLEAN : CheckAndMigrate(confirmed)

SpecIngest == InitIngest /\ [][NextIngest]_vars

\* a search now would compare its query vector with a stored vector of
\* another dimension
StoredDimensionDiffers ==
    \E c \in 1..Len(chunks) : Len(chunks[c].embedding) # emb.settings.dimension

MigrationFlagged == needs_migration(emb.saved, emb.settings)

\* C18: after any ingests and changes of the embedding settings, the stored
\* embeddings all have the dimension of a query, or a pending migration is
\* flagged: the store takes no insert that breaks this.
C18_OneDimensionOrMigrationFlagged ==
    StoredDimensionDiffers => MigrationFlagged

\* the chunks of document d
ChunksOfDoc(d) == {c \in 1..Len(chunks) : chunks[c].documento_id = d}

\* document d is stored with some, but not all, of the chunks of its content
PartialDocument(d) ==
    /\ ChunksOfDoc(d) # {}
    /\ Cardinality(ChunksOfDoc(d)) < Len(ChunkTexts(documentos[d].hash_sha256))

\* C19: after any calls of add_documents (also one that fails part-way in
\* the embedding generation), add_chunks_to_vector_store and
\* clear_embeddings, every stored chunk references one existing document
\* and no document is stored with only part of its chunks.
C19_ChunksBelongToWholeDocuments ==
    /\ \A c \in 1..Len(chunks) : HasDoc(c)
    /\ \A d \in 1..Len(documentos) : ~PartialDocument(d)

(***************************************************************************)
(* CountHelper (services/count_helper.py): facts derived from the chunks   *)
(* of a request by regular expressions, for the categories the question    *)
(* asks about.                                                              *)
(***************************************************************************)
\* "quem"
CW_quem == <<"q", "u", "e", "m">>
\* "quantos"
CW_quantos == <<"q", "u", "a", "n", "t", "o", "s">>
\* "quórum"
CW_quorum_acc == <<"q", "u", "o'", "r", "u", "m">>
\* "voto"
RX_voto == <<"v", "o", "t", "o">>
\* "favor"
RX_favor == <<"f", "a", "v", "o", "r">>
\* "contra"
RX_contra == <<"c", "o", "n", "t", "r", "a">>
\* "absten"
RX_absten == <<"a", "b", "s", "t", "e", "n">>
\* "aprovad"
RX_aprovad == <<"a", "p", "r", "o", "v", "a", "d">>
\* "por"
RX_por == <<"p", "o", "r">>
\* "unanimidade"
RX_unanimidade == <<"u", "n", "a", "n", "i", "m", "i", "d", "a", "d", "e">>
\* "maioria"
RX_maioria == <<"m", "a", "i", "o", "r", "i", "a">>
\* "presentes:"
RX_presentes == <<"p", "r", "e", "s", "e", "n", "t", "e", "s", ":">>
\* "participante"
RX_participante == <<"p", "a", "r", "t", "i", "c", "i", "p", "a", "n", "t", "e">>
\* "qu"
RX_qu == <<"q", "u">>
\* "rum"
RX_rum == <<"r", "u", "m">>
\* "de"
RX_de == <<"d", "e">>
\* "atingido"
RX_atingido == <<"a", "t", "i", "n", "g", "i", "d", "o">>
\* "sem"
RX_sem == <<"s", "e", "m">>
\* "Votação: "
FT_votacao == <<"V", "o", "t", "a", "c,", "a~", "o", ":", " ">>
\* " a favor, "
FT_a_favor == <<" ", "a", " ", "f", "a", "v", "o", "r", ",", " ">>
\* " contra, "
FT_contra == <<" ", "c", "o", "n", "t", "r", "a", ",", " ">>
\* " abstenções (total: "
FT_abstencoes ==
    <<" ", "a", "b", "s", "t", "e", "n", "c,", "o~", "e", "s", " ", "(", "t", "o", "t",
      "a", "l", ":", " ">>
\* ")"
FT_close == <<")">>
\* "Aprovado por unanimidade"
FT_unanimidade ==
    <<"A", "p", "r", "o", "v", "a", "d", "o", " ", "p", "o", "r", " ", "u", "n", "a", "n",
      "i", "m", "i", "d", "a", "d", "e">>
\* "Aprovado por maioria"
FT_maioria ==
    <<"A", "p", "r", "o", "v", "a", "d", "o", " ", "p", "o", "r", " ", "m", "a", "i", "o",
      "r", "i", "a">>
\* "Total de participantes: "
FT_total_participantes ==
    <<"T", "o", "t", "a", "l", " ", "d", "e", " ", "p", "a", "r", "t", "i", "c", "i", "p",
      "a", "n", "t", "e", "s", ":", " ">>
\* "Participantes identificados: "
FT_participantes_identificados ==
    <<"P", "a", "r", "t", "i", "c", "i", "p", "a", "n", "t", "e", "s", " ", "i", "d", "e",
      "n", "t", "i", "f", "i", "c", "a", "d", "o", "s", ":", " ">>
\* "Quórum: "
FT_quorum == <<"Q", "u", "o'", "r", "u", "m", ":", " ">>
\* "Quórum atingido"
FT_quorum_atingido ==
    <<"Q", "u", "o'", "r", "u", "m", " ", "a", "t", "i", "n", "g", "i", "d", "o">>
\* "Sem quórum"
FT_sem_quorum == <<"S", "e", "m", " ", "q", "u", "o'", "r", "u", "m">>
\* " votos a favor, "
PH_votos_a_favor ==
    <<" ", "v", "o", "t", "o", "s", " ", "a", " ", "f", "a", "v", "o", "r", ",", " ">>
\* " contra, "
PH_contra == <<" ", "c", "o", "n", "t", "r", "a", ",", " ">>
\* " absten"
PH_absten == <<" ", "a", "b", "s", "t", "e", "n">>
\* "total: "
PH_total == <<"t", "o", "t", "a", "l", ":", " ">>
\* "15 votos a favor, 2 contra, 1 abstenções"
CC_votes ==
    <<"1", "5", " ", "v", "o", "t", "o", "s", " ", "a", " ", "f", "a", "v", "o", "r", ",",
      " ", "2", " ", "c", "o", "n", "t", "r", "a", ",", " ", "1", " ", "a", "b", "s", "t",
      "e", "n", "c,", "o~", "e", "s">>
\* "Votação: 15 votos a favor, 2 contra, 1 abstenção. Aprovado por maioria."
CC_test ==
    <<"V", "o", "t", "a", "c,", "a~", "o", ":", " ", "1", "5", " ", "v", "o", "t", "o",
      "s", " ", "a", " ", "f", "a", "v", "o", "r", ",", " ", "2", " ", "c", "o", "n", "t",
      "r", "a", ",", " ", "1", " ", "a", "b", "s", "t", "e", "n", "c,", "a~", "o", ".",
      " ", "A", "p", "r", "o", "v", "a", "d", "o", " ", "p", "o", "r", " ", "m", "a", "i",
      "o", "r", "i", "a", ".">>
\* "7 votos a favor. 15 votos a favor, 2 contra, 1 abstenções"
CC_two_votes ==
    <<"7", " ", "v", "o", "t", "o", "s", " ", "a", " ", "f", "a", "v", "o", "r", ".", " ",
      "1", "5", " ", "v", "o", "t", "o", "s", " ", "a", " ", "f", "a", "v", "o", "r", ",",
      " ", "2", " ", "c", "o", "n", "t", "r", "a", ",", " ", "1", " ", "a", "b", "s", "t",
      "e", "n", "c,", "o~", "e", "s">>
\* "Presentes: Ana Lima, Rui; Ana Lima" and, on the next line, "20 participantes"
CC_presentes ==
    <<"P", "r", "e", "s", "e", "n", "t", "e", "s", ":", " ", "A", "n", "a", " ", "L", "i",
      "m", "a", ",", " ", "R", "u", "i", ";", " ", "A", "n", "a", " ", "L", "i", "m", "a",
      "\n", "2", "0", " ", "p", "a", "r", "t", "i", "c", "i", "p", "a", "n", "t", "e", "s">>
\* "Quórum de 20 membros. Quórum atingido."
CC_quorum ==
    <<"Q", "u", "o'", "r", "u", "m", " ", "d", "e", " ", "2", "0", " ", "m", "e", "m", "b",
      "r", "o", "s", ".", " ", "Q", "u", "o'", "r", "u", "m", " ", "a", "t", "i", "n", "g",
      "i", "d", "o", ".">>
\* "Regimento interno"
CC_nada ==
    <<"R", "e", "g", "i", "m", "e", "n", "t", "o", " ", "i", "n", "t", "e", "r", "n", "o">>
\* "Qual foi o resultado da votação?"
KQ_resultado_votacao ==
    <<"Q", "u", "a", "l", " ", "f", "o", "i", " ", "o", " ", "r", "e", "s", "u", "l", "t",
      "a", "d", "o", " ", "d", "a", " ", "v", "o", "t", "a", "c,", "a~", "o", "?">>
\* "Quem participou?"
KQ_quem_participou ==
    <<"Q", "u", "e", "m", " ", "p", "a", "r", "t", "i", "c", "i", "p", "o", "u", "?">>
\* "Teve quórum?"
KQ_teve_quorum == <<"T", "e", "v", "e", " ", "q", "u", "o'", "r", "u", "m", "?">>
\* "Quantos votos?"
KQ_quantos_votos == <<"Q", "u", "a", "n", "t", "o", "s", " ", "v", "o", "t", "o", "s", "?">>

\* \s
IsWhite(c) == c \in {" ", "\n"}

\* the index of the last character of the run that starts at i of characters
\* in the class (inside) or not in it; i - 1 where s[i] does not qualify
RECURSIVE RunEnd(_, _, _, _)
RunEnd(s, i, class, inside) ==
    IF i <= Len(s) /\ ((s[i] \in class) <=> inside)
    THEN RunEnd(s, i + 1, class, inside) ELSE i - 1

DigitsEnd(s, i) == RunEnd(s, i, Digits, TRUE)

WhiteEnd(s, i) == RunEnd(s, i, {" ", "\n"}, TRUE)

\* the literal lit stands at s[i..]
LitAt(s, i, lit) == i + Len(lit) - 1 <= Len(s) /\ SubSeq(s, i, i + Len(lit) - 1) = lit

\* \s+lit at i: the index of the last character of lit, 0 without a match
WhiteLitEnd(s, i, lit) ==
    LET w == WhiteEnd(s, i)
    IN  IF w >= i /\ LitAt(s, w + 1, lit) THEN w + Len(lit) ELSE 0

\* (\d+)\s+lit at i: the index of the last character of lit, 0 without a
\* match
NumberLitEnd(s, i, lit) ==
    LET d == DigitsEnd(s, i)
    IN  IF d >= i THEN WhiteLitEnd(s, d + 1, lit) ELSE 0

\* (\d+)\s+votos?\s+(?:a\s+)?favor at i: the index of the last character of
\* "favor", 0 without a match
FavorEnd(s, i) ==
    LET v == NumberLitEnd(s, i, RX_voto)
        v2 == IF v # 0 /\ v < Len(s) /\ s[v + 1] = "s" THEN v + 1 ELSE v
        w == WhiteEnd(s, v2 + 1)
        a == IF LitAt(s, w + 1, <<"a">>) THEN WhiteEnd(s, w + 2) ELSE 0
    IN  IF v = 0 \/ w <= v2 THEN 0
        ELSE IF a >= w + 2 /\ LitAt(s, a + 1, RX_favor) THEN a + Len(RX_favor)
        ELSE IF LitAt(s, w + 1, RX_favor) THEN w + Len(RX_favor)
        ELSE 0

\* .*? from p up to j - 1: no line break in between
SameLine(s, p, j) == \A x \in p..(j - 1) : s[x] # "\n"

\* the places after p where .*?(\d+)\s+absten can end its lazy part
AbstenStarts(s, p) ==
    {m \in p..Len(s) : SameLine(s, p, m) /\ NumberLitEnd(s, m, RX_absten) # 0}

\* the places after p where .*?(\d+)\s+contra can end its lazy part so that
\* the rest of the pattern still matches
ContraStarts(s, p) ==
    {j \in p..Len(s) :
        /\ SameLine(s, p, j)
        /\ NumberLitEnd(s, j, RX_contra) # 0
        /\ AbstenStarts(s, NumberLitEnd(s, j, RX_contra) + 1) # {}}

Least(S) == CHOOSE x \in S : \A y \in S : x <= y

\* the digits matched by (\d+) at i
NumberAt(s, i) == SubSeq(s, i, DigitsEnd(s, i))

NoMatch == <<"no match">>

\* re.search of the voting pattern, re.IGNORECASE: the groups of the
\* leftmost match, each lazy part as short as the rest allows
voting_match(content) ==
    LET s == LowerText(content)
        starts == {i \in 1..Len(s) :
                      FavorEnd(s, i) # 0 /\ ContraStarts(s, FavorEnd(s, i) + 1) # {}}
    IN  IF starts = {} THEN NoMatch
        ELSE LET i == Least(starts)
                 j == Least(ContraStarts(s, FavorEnd(s, i) + 1))
                 m == Least(AbstenStarts(s, NumberLitEnd(s, j, RX_contra) + 1))
             IN  <<NumberAt(s, i), NumberAt(s, j), NumberAt(s, m)>>

DigitValue(c) ==
    CASE c = "0" -> 0 [] c = "1" -> 1 [] c = "2" -> 2 [] c = "3" -> 3 [] c = "4" -> 4
      [] c = "5" -> 5 [] c = "6" -> 6 [] c = "7" -> 7 [] c = "8" -> 8 [] c = "9" -> 9

DigitChar(d) == <<"0", "1", "2", "3", "4", "5", "6", "7", "8", "9">>[d + 1]

\* int(text) for a text of digits
RECURSIVE ParseInt(_)
ParseInt(text) ==
    IF text = <<>> THEN 0
    ELSE ParseInt(SubSeq(text, 1, Len(text) - 1)) * 10 + DigitValue(text[Len(text)])

\* str(n) for n >= 0
RECURSIVE FormatInt(_)
FormatInt(n) ==
    IF n < 10 THEN <<DigitChar(n)>> ELSE FormatInt(n \div 10) \o <<DigitChar(n % 10)>>

\* lit1 [oa]? \s+ lit2 \s+ lit3 somewhere in s; between is the set of
\* characters allowed after lit1 ({} for none)
PhraseOf3(s, lit1, between, lit2, lit3) ==
    \E i \in 1..Len(s) :
        /\ LitAt(s, i, lit1)
        /\ LET e1 == i + Len(lit1) - 1
               e1b == IF between = {} THEN e1 ELSE e1 + 1
               e2 == WhiteLitEnd(s, e1b + 1, lit2)
           IN  /\ between # {} => (e1b <= Len(s) /\ s[e1b] \in between)
               /\ e2 # 0
               /\ WhiteLitEnd(s, e2 + 1, lit3) # 0


\* _derive_voting_counts for one chunk
voting_facts_of(content) ==
    LET s == LowerText(content)
        g == voting_match(content)
    IN  (IF g # NoMatch
         THEN <<FT_votacao \o g[1] \o FT_a_favor \o g[2] \o FT_contra \o g[3] \o
                FT_abstencoes \o
                FormatInt(ParseInt(g[1]) + ParseInt(g[2]) + ParseInt(g[3])) \o FT_close>>
         ELSE <<>>) \o
        (IF PhraseOf3(s, RX_aprovad, {"o", "a"}, RX_por, RX_unanimidade)
         THEN <<FT_unanimidade>> ELSE <<>>) \o
        (IF PhraseOf3(s, RX_aprovad, {"o", "a"}, RX_por, RX_maioria)
         THEN <<FT_maioria>> ELSE <<>>)

\* the lists of facts of the chunks, one after the other
RECURSIVE Flatten(_)
Flatten(lists) == IF lists = <<>> THEN <<>> ELSE Head(lists) \o Flatten(Tail(lists))

\* _derive_voting_counts
derive_voting_counts(contents) ==
    Flatten([k \in 1..Len(contents) |-> voting_facts_of(contents[k])])

\* re.split(r'[,;]', text)
RECURSIVE SplitNames(_)
SplitNames(text) ==
    LET cuts == {i \in 1..Len(text) : text[i] \in {",", ";"}}
    IN  IF cuts = {} THEN <<text>>
        ELSE <<SubSeq(text, 1, Least(cuts) - 1)>> \o
             SplitNames(SubSeq(text, Least(cuts) + 1, Len(text)))

\* str.strip() on blanks and line breaks
RECURSIVE StripWhite(_)
StripWhite(text) ==
    IF text # <<>> /\ IsWhite(Head(text)) THEN StripWhite(Tail(text))
    ELSE IF text # <<>> /\ IsWhite(text[Len(text)])
    THEN StripWhite(SubSeq(text, 1, Len(text) - 1))
    ELSE text

\* the names after "Presentes:": re.search(r'presentes:\s*(.+?)(?:\n|$)'),
\* the group up to the end of its line, split and stripped, names of more
\* than three characters
names_of(content) ==
    LET s == LowerText(content)
        starts == {i \in 1..Len(s) : LitAt(s, i, RX_presentes)}
        \* \s* gives a character back where nothing but white space follows
        from(i) == LET w == WhiteEnd(s, i + Len(RX_presentes))
                   IN  IF w = Len(s) \/ s[w + 1] = "\n" THEN w ELSE w + 1
        usable == {i \in starts : from(i) >= i + Len(RX_presentes) /\ from(i) <= Len(s)
                                  /\ s[from(i)] # "\n"}
    IN  IF usable = {} THEN {}
        ELSE LET b == from(Least(usable))
                 e == RunEnd(content, b + 1, {"\n"}, FALSE)
                 parts == SplitNames(SubSeq(content, b, e))
             IN  {StripWhite(parts[k]) : k \in 1..Len(parts)} \ 
                 {n \in {StripWhite(parts[k]) : k \in 1..Len(parts)} : Len(n) <= 3}

\* (\d+)\s+participantes? : the digits of the leftmost match
participants_count(content) ==
    LET s == LowerText(content)
        starts == {i \in 1..Len(s) : NumberLitEnd(s, i, RX_participante) # 0}
    IN  IF starts = {} THEN NoMatch ELSE NumberAt(s, Least(starts))

participant_facts_of(content) ==
    IF participants_count(content) # NoMatch
    THEN <<FT_total_participantes \o participants_count(content)>> ELSE <<>>

\* _derive_participant_counts
derive_participant_counts(contents) ==
    LET participants == UNION {names_of(contents[k]) : k \in 1..Len(contents)}
    IN  Flatten([k \in 1..Len(contents) |-> participant_facts_of(contents[k])]) \o
        (IF participants # {}
         THEN <<FT_participantes_identificados \o FormatInt(Cardinality(participants))>>
         ELSE <<>>)

\* qu[oó]rum at i: the index of its last character, 0 without a match
QuorumEnd(s, i) ==
    IF /\ LitAt(s, i, RX_qu)
       /\ i + 2 <= Len(s) /\ s[i + 2] \in {"o", "o'"}
       /\ LitAt(s, i + 3, RX_rum)
    THEN i + 5 ELSE 0

\* qu[oó]rum\s+de\s+(\d+): the digits of the leftmost match
quorum_size(s) ==
    LET ends == {i \in 1..Len(s) :
                    /\ QuorumEnd(s, i) # 0
                    /\ WhiteLitEnd(s, QuorumEnd(s, i) + 1, RX_de) # 0
                    /\ LET d == WhiteLitEnd(s, QuorumEnd(s, i) + 1, RX_de)
                       IN  WhiteEnd(s, d + 1) > d /\ DigitsEnd(s, WhiteEnd(s, d + 1) + 1)
                                                      > WhiteEnd(s, d + 1)}
    IN  IF ends = {} THEN NoMatch
        ELSE LET d == WhiteLitEnd(s, QuorumEnd(s, Least(ends)) + 1, RX_de)
             IN  NumberAt(s, WhiteEnd(s, d + 1) + 1)

quorum_facts_of(content) ==
    LET s == LowerText(content)
    IN  (IF quorum_size(s) # NoMatch THEN <<FT_quorum \o quorum_size(s)>> ELSE <<>>) \o
        (IF \E i \in 1..Len(s) :
                QuorumEnd(s, i) # 0 /\ WhiteLitEnd(s, QuorumEnd(s, i) + 1, RX_atingido) # 0
         THEN <<FT_quorum_atingido>> ELSE <<>>) \o
        (IF \E i \in 1..Len(s) :
                /\ LitAt(s, i, RX_sem)
                /\ LET w == WhiteEnd(s, i + Len(RX_sem))
                   IN  w >= i + Len(RX_sem) /\ QuorumEnd(s, w + 1) # 0
         THEN <<FT_sem_quorum>> ELSE <<>>)

\* _derive_quorum_info
derive_quorum_info(contents) ==
    Flatten([k \in 1..Len(contents) |-> quorum_facts_of(contents[k])])

voting_terms == {T_votacao, T_votacao_acc, T_voto, T_aprovad, T_resultado}
participant_terms == {T_participantes, T_presenca, T_presenca_acc, CW_quem, CW_quantos}
quorum_terms == {T_quorum, CW_quorum_acc}

\* any(term in q_lower for term in terms)
AsksAbout(terms, question) == \E term \in terms : Contains(LowerText(question), term)

\* CountHelper.derive_counts; contents are the 'conteudo' of the chunks
derive_counts(question, contents) ==
    (IF AsksAbout(voting_terms, question) THEN derive_voting_counts(contents) ELSE <<>>)
    \o (IF AsksAbout(participant_terms, question)
        THEN derive_participant_counts(contents) ELSE <<>>)
    \o (IF AsksAbout(quorum_terms, question) THEN derive_quorum_info(contents) ELSE <<>>)

(***************************************************************************)
(* Specification SpecCount: derive_counts is called once, with a question  *)
(* and the chunks of a retrieval.                                           *)
(***************************************************************************)
\* most chunks handed to derive_counts
MaxFactChunks == 2

CountQuestions ==
    {KQ_resultado_votacao, KQ_quem_participou, KQ_teve_quorum, KQ_quantos_votos,
     AQ_qual_a_pauta}

\* the 'conteudo' of a chunk; <<>> is also what chunk.get('conteudo', '')
\* gives for a chunk without the key
CountContents == {CC_votes, CC_test, CC_two_votes, CC_presentes, CC_quorum, CC_nada, <<>>}

InitCount ==
    /\ NormIdle
    /\ ToolIdle
    /\ CacheIdle
    /\ OrchIdle
    /\ StoreIdle
    /\ ClarIdle /\ RunIdle /\ EnrIdle /\ EmbIdle
    /\ FlightIdle
    /\ cnt \in [op : {"pending"}, question : CountQuestions,
                contents : TextsUpTo(CountContents, MaxFactChunks)]

DeriveCounts ==
    /\ cnt.op = "pending"
    /\ cnt' = [op |-> "derive_counts", question |-> cnt.question,
               contents |-> cnt.contents,
               facts |-> derive_counts(cnt.question, cnt.contents)]
    /\ UNCHANGED <<clar, run, enr, emb, notStage>>

NextCount == DeriveCounts

SpecCount == InitCount /\ [][NextCount]_vars

StartsWith(text, prefix) ==
    Len(prefix) <= Len(text) /\ SubSeq(text, 1, Len(prefix)) = prefix

IsVotingFact(f) == StartsWith(f, FT_votacao) \/ f \in {FT_unanimidade, FT_maioria}

IsParticipantFact(f) ==
    StartsWith(f, FT_total_participantes) \/ StartsWith(f, FT_participantes_identificados)

IsQuorumFact(f) == StartsWith(f, FT_quorum) \/ f \in {FT_quorum_atingido, FT_sem_quorum}

Facts == {cnt.facts[k] : k \in 1..Len(cnt.facts)}

\* contents in which no pattern of any category matches
PatternFree == {CC_nada, <<>>}

\* "N votos a favor, M contra, K absten"
VotePhrase(n, m, k) ==
    FormatInt(n) \o PH_votos_a_favor \o FormatInt(m) \o PH_contra \o FormatInt(k) \o
    PH_absten

\* the votes a chunk of CountContents can report
VoteCounts == {<<15, 2, 1>>, <<7, 0, 0>>}

\* some fact contains n, m, k and their total
FactReports(n, m, k) ==
    \E f \in Facts :
        /\ Contains(f, FormatInt(n))
        /\ Contains(f, FormatInt(m))
        /\ Contains(f, FormatInt(k))
        /\ Contains(f, PH_total \o FormatInt(n + m + k))

\* C20: derive_counts returns a list of facts for every question and every
\* list of chunks; a category gives facts only where its keywords occur in
\* the question; a chunk in which no pattern matches gives none; and under
\* a question about a vote, a chunk containing "N votos a favor, M contra,
\* K abstenções" gives a fact with N, M, K and their total.
C20_DerivedFactsFollowQuestionAndChunks ==
    cnt.op = "derive_counts" =>
        /\ \A f \in Facts :
              /\ IsVotingFact(f) => AsksAbout(voting_terms, cnt.question)
              /\ IsParticipantFact(f) => AsksAbout(participant_terms, cnt.question)
              /\ IsQuorumFact(f) => AsksAbout(quorum_terms, cnt.question)
        /\ cnt.facts = derive_counts(cnt.question,
                                     SelectSeq(cnt.contents, LAMBDA c : c \notin PatternFree))
        /\ AsksAbout(voting_terms, cnt.question) =>
              \A v \in VoteCounts :
                  (\E i \in 1..Len(cnt.contents) :
                       Contains(cnt.contents[i], VotePhrase(v[1], v[2], v[3])))
                  => FactReports(v[1], v[2], v[3])

(***************************************************************************)
(* The retrieval step of a chat request on the tables of the VectorStore:  *)
(* FocalAgent.run, and the searches ChatService.answer, app.py and         *)
(* app_enhanced.py issue.  Here a row of documentos also has its titulo    *)
(* and a row of chunks its conteudo; a search returns the ids of chunks.   *)
(***************************************************************************)
\* "convocacao"
T_convocacao == <<"c", "o", "n", "v", "o", "c", "a", "c", "a", "o">>
\* " data reunião sessão ata agenda pauta convocação"
BOOST_data_reuniao ==
    <<" ", "d", "a", "t", "a", " ", "r", "e", "u", "n", "i", "a~", "o", " ", "s", "e", "s",
      "s", "a~", "o", " ", "a", "t", "a", " ", "a", "g", "e", "n", "d", "a", " ", "p", "a",
      "u", "t", "a", " ", "c", "o", "n", "v", "o", "c", "a", "c,", "a~", "o">>
\* " votação resultado quórum aprovada"
BOOST_votacao ==
    <<" ", "v", "o", "t", "a", "c,", "a~", "o", " ", "r", "e", "s", "u", "l", "t", "a",
      "d", "o", " ", "q", "u", "o'", "r", "u", "m", " ", "a", "p", "r", "o", "v", "a", "d",
      "a">>
\* " participantes presença assinaturas lista"
BOOST_participantes ==
    <<" ", "p", "a", "r", "t", "i", "c", "i", "p", "a", "n", "t", "e", "s", " ", "p", "r",
      "e", "s", "e", "n", "c,", "a", " ", "a", "s", "s", "i", "n", "a", "t", "u", "r", "a",
      "s", " ", "l", "i", "s", "t", "a">>
\* "Ata da sessão"
RC_ata_da_sessao == <<"A", "t", "a", " ", "d", "a", " ", "s", "e", "s", "s", "a~", "o">>
\* "Texto do item"
RC_texto_do_item == <<"T", "e", "x", "t", "o", " ", "d", "o", " ", "i", "t", "e", "m">>
\* "Pauta 1"
RT_pauta_1 == <<"P", "a", "u", "t", "a", " ", "1">>
\* "Doc 2"
RT_doc_2 == <<"D", "o", "c", " ", "2">>
\* "Ata 2"
RT_ata_2 == <<"A", "t", "a", " ", "2">>

\* ToolConfig.filter_terms of the tool of that name
filter_terms(name) ==
    CASE name = "pauta" -> <<T_pauta, T_agenda, T_convocacao>>
      [] name = "ata" -> <<T_ata>>
      [] name = "votacao" -> <<T_votacao, T_ata>>
      [] name = "participantes" -> <<T_participantes, T_assinaturas, T_ata>>
      [] name = "resolucao" -> <<T_resolucao>>
      [] name = "portaria" -> <<T_portaria>>
      [] name = "data_reuniao" -> <<T_ata, T_agenda, T_pauta, T_convocacao>>

\* the tools whose name is a document type the search is restricted to
TypedTools == {"pauta", "ata", "resolucao", "portaria"}

\* FocalAgent.run, "Enhance query for specific tools"
enhanced_query(question, tool) ==
    IF tool = "data_reuniao" THEN question \o BOOST_data_reuniao
    ELSE IF tool = "votacao" THEN question \o BOOST_votacao
    ELSE IF tool = "participantes" THEN question \o BOOST_participantes
    ELSE question

\* any(term in content_lower or term in source_lower for term in tool.filter_terms)
MatchesFilterTerms(docs, chs, c, tool) ==
    LET content_lower == LowerText(chs[c].conteudo)
        source_lower == LowerText(docs[chs[c].documento_id].titulo)
        terms == filter_terms(tool)
    IN  \E j \in 1..Len(terms) :
            Contains(content_lower, terms[j]) \/ Contains(source_lower, terms[j])

\* one call of VectorStore.search or search_with_filter and what came of it;
\* user_id = NoUser when the caller passed none
Searched_as(fn, query, query_embedding, filters, k, user_id, plan, raised, results) ==
    [fn |-> fn, query |-> query, query_embedding |-> query_embedding,
     filters |-> filters, k |-> k, user_id |-> user_id, plan |-> plan,
     raised |-> raised, results |-> results]

\* FocalAgent.run that keeps every row the search returned
FocalAgent_run_on_NoPostFilter(docs, chs, question, k, user_id, embed, plan) ==
    LET tool == pick_tool(question)
        query == enhanced_query(question, tool)
        qe == IF query = question THEN embed.plain ELSE embed.boosted
        filters == IF tool \in TypedTools THEN [tipo |-> tool] ELSE NoFilters
        fn == IF tool \in TypedTools THEN "search_with_filter" ELSE "search"
        found == IF embed.fails THEN <<>>
                 ELSE IF tool \in TypedTools
                 THEN search_with_filter(docs, chs, qe, filters, k, user_id, plan)
                 ELSE search(docs, chs, qe, k, user_id, plan)
    IN  IF tool = NoTool
        THEN [tool |-> NoTool, chunks |-> <<>>, enhanced_query |-> question,
              searches |-> <<>>]
        ELSE [tool |-> tool, chunks |-> found, enhanced_query |-> query,
              searches |-> <<Searched_as(fn, query, qe, filters, k, user_id, plan,
                                         embed.fails, found)>>]

\* FocalAgent.run on the store (docs, chs).  embed is the embedding
\* provider: the vector of the question, the vector of the question with
\* its suffix, and whether generate_embedding raises; an exception of the
\* search is caught and leaves the tool with no chunks.
FocalAgent_run_on(docs, chs, question, k, user_id, embed, plan) ==
    LET tool == pick_tool(question)
        query == enhanced_query(question, tool)
        qe == IF query = question THEN embed.plain ELSE embed.boosted
        filters == IF tool \in TypedTools THEN [tipo |-> tool] ELSE NoFilters
        fn == IF tool \in TypedTools THEN "search_with_filter" ELSE "search"
        found == IF embed.fails THEN <<>>
                 ELSE IF tool \in TypedTools
                 THEN search_with_filter(docs, chs, qe, filters, k, user_id, plan)
                 ELSE search(docs, chs, qe, k, user_id, plan)
        kept == IF tool \in TypedTools THEN found
                ELSE FirstK(SelectSeq(found,
                                      LAMBDA c : MatchesFilterTerms(docs, chs, c, tool)), k)
    IN  IF tool = NoTool
        THEN [tool |-> NoTool, chunks |-> <<>>, enhanced_query |-> question,
              searches |-> <<>>]
        ELSE [tool |-> tool, chunks |-> kept, enhanced_query |-> query,
              searches |-> <<Searched_as(fn, query, qe, filters, k, user_id, plan,
                                         embed.fails, found)>>]

\* k of the searches of ChatService.answer and app_enhanced.py, and of app.py
K_chat == 5
K_app == 8

\* "if not search_results or len(search_results) < 3" of app.py
FLOOR_filtered == 3

\* what the retrieval step of a request leaves: the tool, the chunks handed
\* to the later steps, and the searches in the order they were issued;
\* raised when an exception left the step
Retrieved(tool, retrieved, searches, raised) ==
    [tool |-> tool, chunks |-> retrieved, searches |-> searches, raised |-> raised]

\* ChatService.answer, "3. Focal agent search": answer() has the user_id of
\* the request and hands it to neither call
ChatService_retrieval(docs, chs, search_query, agent, embed, plan) ==
    IF agent
    THEN LET agent_result ==
                 FocalAgent_run_on(docs, chs, search_query, K_chat, NoUser, embed, plan)
         IN  Retrieved(agent_result.tool, agent_result.chunks, agent_result.searches,
                       FALSE)
    ELSE LET found == IF embed.fails THEN <<>>
                      ELSE search(docs, chs, embed.plain, K_chat, NoUser, plan)
         IN  Retrieved(NoTool, found,
                       <<Searched_as("search", search_query, embed.plain, NoFilters,
                                     K_chat, NoUser, plan, embed.fails, found)>>,
                       embed.fails)

\* app.py, "Search with or without filters"
app_retrieval(docs, chs, prompt, search_query, embed, plan) ==
    LET tipo == app_filters(prompt, search_query)
        filters == [tipo |-> tipo]
        filtered == IF embed.fails THEN <<>>
                    ELSE search_with_filter(docs, chs, embed.plain, filters, K_app,
                                            NoUser, plan)
        unfiltered == IF embed.fails THEN <<>>
                      ELSE search(docs, chs, embed.plain, K_app, NoUser, plan)
        first == Searched_as("search_with_filter", search_query, embed.plain, filters,
                             K_app, NoUser, plan, embed.fails, filtered)
        second == Searched_as("search", search_query, embed.plain, NoFilters, K_app,
                              NoUser, plan, embed.fails, unfiltered)
    IN  IF tipo = NULL THEN Retrieved(NoTool, unfiltered, <<second>>, embed.fails)
        ELSE IF embed.fails THEN Retrieved(NoTool, <<>>, <<first>>, TRUE)
        ELSE IF Len(filtered) < FLOOR_filtered
        THEN Retrieved(NoTool, unfiltered, <<first, second>>, FALSE)
        ELSE Retrieved(NoTool, filtered, <<first>>, FALSE)

\* app_enhanced.py, "2. Focal agent search" and "3. Regular RAG search"
app_enhanced_retrieval(docs, chs, user_id, rewritten, embed, plan) ==
    LET agent_result ==
            FocalAgent_run_on(docs, chs, rewritten, K_chat, user_id, embed, plan)
        search_results == IF embed.fails THEN <<>>
                          ELSE search(docs, chs, embed.plain, K_chat, user_id, plan)
        all_chunks == IF agent_result.chunks # <<>> THEN agent_result.chunks
                      ELSE search_results
        second == Searched_as("search", rewritten, embed.plain, NoFilters, K_chat,
                              user_id, plan, embed.fails, search_results)
    IN  Retrieved(agent_result.tool, all_chunks, agent_result.searches \o <<second>>,
                  embed.fails)

(***************************************************************************)
(* Specification SpecRetrieve: one retrieval step, of FocalAgent.run or of *)
(* an orchestrator, on a store that holds global documents and private     *)
(* documents of alice.                                                     *)
(***************************************************************************)
\* most rows of the table chunks of this store
MaxStored == 3

RD_global_pauta ==
    [hash_sha256 |-> "h1", tipo |-> "pauta", is_global |-> 1, user_id |-> NULL,
     titulo |-> RT_pauta_1]
RD_global_regimento ==
    [hash_sha256 |-> "h1", tipo |-> "regimento", is_global |-> 1, user_id |-> NULL,
     titulo |-> RT_doc_2]
RD_alice_pauta ==
    [hash_sha256 |-> "h2", tipo |-> "pauta", is_global |-> 0, user_id |-> "alice",
     titulo |-> RT_doc_2]
RD_alice_ata ==
    [hash_sha256 |-> "h2", tipo |-> "ata", is_global |-> 0, user_id |-> "alice",
     titulo |-> RT_ata_2]

RetDocRows == {RD_global_pauta, RD_global_regimento, RD_alice_pauta, RD_alice_ata}

RetDocTables ==
    {<<>>} \cup {<<d>> : d \in RetDocRows} \cup
    {t \in {<<d1, d2>> : d1, d2 \in RetDocRows} : t[1].hash_sha256 # t[2].hash_sha256}

\* the embedding the provider gave a chunk when it was written
RetChunkRows ==
    {[documento_id |-> d, conteudo |-> RC_ata_da_sessao, embedding |-> <<1, 1>>] :
        d \in DocIds} \cup
    {[documento_id |-> d, conteudo |-> RC_texto_do_item, embedding |-> <<1, 0>>] :
        d \in DocIds}

\* the chunks of a document follow those of the documents written before it,
\* so that every plan of the SELECT reads them in the order of their ids
RetChunkTables ==
    {t \in TextsUpTo(RetChunkRows, MaxStored) :
        \A i, j \in 1..Len(t) : i < j => t[i].documento_id <= t[j].documento_id}

RetPrompts == {AQ_qual_a_pauta, AQ_QUAL_A_ATA, AQ_qual_o_resultado, AQ_mostre_o_regimento}

\* the embedding provider of a request
Embedders ==
    {[plain |-> <<1, 0>>, boosted |-> b, fails |-> FALSE] : b \in QueryEmbeddings}
    \cup {[plain |-> <<1, 0>>, boosted |-> <<1, 0>>, fails |-> TRUE]}

\* st.session_state.user_id of app.py, which has no login
ANON == "anon"

InitRetrieve ==
    /\ documentos \in RetDocTables
    /\ chunks \in RetChunkTables
    /\ store_op = NoOp
    /\ NormIdle
    /\ ToolIdle
    /\ CacheIdle
    /\ OrchIdle
    /\ StagesIdle

notRet ==
    <<proc, hyde, stageVars, normVars, toolVars, tableVars, cacheVars, orchVars, storeVars>>

RetStep(op, user_id, prompt, k, out) ==
    /\ ret' = [op |-> op, user_id |-> user_id, prompt |-> prompt, k |-> k,
               tool |-> out.tool, chunks |-> out.chunks, searches |-> out.searches]
    /\ UNCHANGED notRet

\* FocalAgent.run(question, k, user_id)
FocalRun(question, k, user_id, embed, plan) ==
    LET out == FocalAgent_run_on(documentos, chunks, question, k, user_id, embed, plan)
    IN  /\ ret' = [op |-> "FocalAgent.run", user_id |-> user_id, prompt |-> question,
                   k |-> k, tool |-> out.tool, chunks |-> out.chunks,
                   searches |-> out.searches, enhanced_query |-> out.enhanced_query]
        /\ UNCHANGED notRet

\* ChatService.answer(user_message, user_id = user_id); the rewriter is
\* absent or gave the question back
ChatServiceRetrieve(user_id, user_message, agent, embed, plan) ==
    RetStep(IF agent THEN "ChatService.answer (agent)" ELSE "ChatService.answer",
            user_id, user_message, K_chat,
            ChatService_retrieval(documentos, chunks, user_message, agent, embed, plan))

AppRetrieve(prompt, embed, plan) ==
    RetStep("app.py", ANON, prompt, K_app,
            app_retrieval(documentos, chunks, prompt, prompt, embed, plan))

AppEnhancedRetrieve(user_id, prompt, embed, plan) ==
    RetStep("app_enhanced.py", user_id, prompt, K_chat,
            app_enhanced_retrieval(documentos, chunks, user_id, prompt, embed, plan))

NextRetrieve ==
    /\ ret = NoOp
    /\ \E q \in RetPrompts, embed \in Embedders :
          \/ \E k \in Ks, u \in Requesters : FocalRun(q, k, u, embed, "scan_chunks")
          \/ \E u \in Users, agent \in BOOLEAN :
                ChatServiceRetrieve(u, q, agent, embed, "scan_chunks")
          \/ AppRetrieve(q, embed, "scan_chunks")
          \/ \E u \in Users : AppEnhancedRetrieve(u, q, embed, "scan_chunks")

SpecRetrieve == InitRetrieve /\ [][NextRetrieve]_vars

\* a request of a user who is logged in has issued its searches
IdentifiedRetrieval ==
    /\ ret # NoOp
    /\ ret.op # "FocalAgent.run"
    /\ ret.user_id # ANON
    /\ ret.searches # <<>>

\* what the search s returns when it is run for the requester user_id
ResultsFor(s, user_id) ==
    IF s.raised THEN <<>>
    ELSE search_with_filter(documentos, chunks, s.query_embedding, s.filters, s.k,
                            user_id, s.plan)

\* C21: every search an orchestrator issues for user u carries u as the
\* requester, the search of the focal agent and every retry or fallback
\* included: no search of an identified user runs as an anonymous search, and
\* each returns what the store holds for u, the private documents of u
\* included.
C21_SearchesCarryTheRequester ==
    IdentifiedRetrieval =>
        \A i \in 1..Len(ret.searches) :
            /\ ret.searches[i].user_id = ret.user_id
            /\ ret.searches[i].results = ResultsFor(ret.searches[i], ret.user_id)

\* app_enhanced.py hands the user of the session to both of its searches
AppEnhancedCarriesTheRequester ==
    (IdentifiedRetrieval /\ ret.op = "app_enhanced.py") => C21_SearchesCarryTheRequester

\* the request of an orchestrator has issued its searches
OrchestratorRetrieval == ret # NoOp /\ ret.op # "FocalAgent.run"

\* the search restricted to a document type answered
TypeFiltered(s) == s.filters.tipo # NULL /\ ~s.raised

\* after search i the caller searched again without the type filter and
\* uses what that search returned
RetriedUnfiltered(i) ==
    \E j \in (i + 1)..Len(ret.searches) :
        /\ ret.searches[j].filters = NoFilters
        /\ ret.chunks = ret.searches[j].results

\* C24: every chunk a type-filtered search returns is of the type asked for,
\* and whenever a type-filtered search of an orchestrator or of the focal
\* agent returns fewer than 3 results, the caller searches again without the
\* type filter and uses that result.
C24_TypeFilterAppliedAndRetriedBelowFloor ==
    OrchestratorRetrieval =>
        \A i \in 1..Len(ret.searches) :
            TypeFiltered(ret.searches[i]) =>
                /\ \A n \in 1..Len(ret.searches[i].results) :
                      DocOf(ret.searches[i].results[n]).tipo = ret.searches[i].filters.tipo
                /\ Len(ret.searches[i].results) < FLOOR_filtered => RetriedUnfiltered(i)

\* app.py retries below the floor
AppRetriesBelowFloor ==
    (OrchestratorRetrieval /\ ret.op = "app.py") => C24_TypeFilterAppliedAndRetriedBelowFloor

\* the store never drops the type filter, whoever searches
TypeFilterApplied ==
    ret # NoOp =>
        \A i \in 1..Len(ret.searches) :
            TypeFiltered(ret.searches[i]) =>
                \A n \in 1..Len(ret.searches[i].results) :
                    DocOf(ret.searches[i].results[n]).tipo = ret.searches[i].filters.tipo

\* a is b with some of its elements left out
RECURSIVE IsSubsequence(_, _)
IsSubsequence(a, b) ==
    IF a = <<>> THEN TRUE
    ELSE IF b = <<>> THEN FALSE
    ELSE IF Head(a) = Head(b) THEN IsSubsequence(Tail(a), Tail(b))
    ELSE IsSubsequence(a, Tail(b))

\* FocalAgent.run was called with a question that matches a tool
ToolMatched ==
    /\ ret # NoOp
    /\ ret.op = "FocalAgent.run"
    /\ pick_tool(ret.prompt) # NoTool

\* the text or the title of chunk c has one of the filter terms of the tool
HasFilterTerm(c, tool) ==
    \E j \in 1..Len(filter_terms(tool)) :
        \/ Contains(LowerText(chunks[c].conteudo), filter_terms(tool)[j])
        \/ Contains(LowerText(DocOf(c).titulo), filter_terms(tool)[j])

\* what the store returns for the search of the request
StoreTopK ==
    IF ret.searches[1].raised THEN <<>>
    ELSE search(documentos, chunks, ret.searches[1].query_embedding, ret.k, ret.user_id,
                ret.searches[1].plan)

\* C26: when FocalAgent.run matches a tool its result reports the name of
\* that tool, also when no chunk is returned or the search raised; for the
\* tools pauta, ata, resolucao and portaria every returned chunk is of the
\* document type of that name; for the other tools every returned chunk has
\* one of the tool's filter terms in its text or title, and the chunks are a
\* subsequence, of length at most k, of the store's top-k result; the boosted
\* query starts with the question.
C26_FocalRunReportsToolAndFilters ==
    ToolMatched =>
        /\ ret.tool = pick_tool(ret.prompt)
        /\ ret.tool \in TypedTools =>
              \A i \in 1..Len(ret.chunks) : DocOf(ret.chunks[i]).tipo = ret.tool
        /\ ret.tool \notin TypedTools =>
              /\ \A i \in 1..Len(ret.chunks) : HasFilterTerm(ret.chunks[i], ret.tool)
              /\ IsSubsequence(ret.chunks, StoreTopK)
              /\ Len(ret.chunks) <= ret.k
        /\ StartsWith(ret.enhanced_query, ret.prompt)

\* the tool votacao was matched, the store returned two chunks, and the
\* second of them, which has a filter term in its title only, was kept
\* while the first was left out
C26_Witness ==
    /\ ToolMatched
    /\ ret.tool = "votacao"
    /\ Len(ret.searches[1].results) = 2
    /\ ret.chunks = <<ret.searches[1].results[2]>>
    /\ ~Contains(LowerText(chunks[ret.chunks[1]].conteudo), T_ata)
    /\ ret.enhanced_query # ret.prompt

\* the search of a matched tool raised and the tool is reported with no chunk
RaisedWithTool == ToolMatched /\ ret.searches[1].raised /\ ret.tool # NoTool

\* a typed tool returned a chunk
TypedToolReturned == ToolMatched /\ ret.tool \in TypedTools /\ ret.chunks # <<>>

\* the question of the request matches no tool
NoToolMatches == ret # NoOp /\ pick_tool(ret.prompt) = NoTool

UsesFocalAgent == ret.op \in {"ChatService.answer (agent)", "app_enhanced.py"}

\* the request searched the store without a type filter and goes on with
\* what that search returned
AnsweredFromCorpus ==
    \E i \in 1..Len(ret.searches) :
        /\ ret.searches[i].fn = "search"
        /\ ret.searches[i].filters = NoFilters
        /\ ret.chunks = ret.searches[i].results

\* C30: when no tool matches, FocalAgent.run searches nothing and returns no
\* chunk and the question as it was, and every orchestrator that uses the
\* focal agent still makes an unfiltered search of the store and goes on
\* with its result.
C30_NoToolStillSearchesTheCorpus ==
    NoToolMatches =>
        /\ ret.op = "FocalAgent.run" =>
              /\ ret.tool = NoTool
              /\ ret.searches = <<>>
              /\ ret.chunks = <<>>
              /\ ret.enhanced_query = ret.prompt
        /\ UsesFocalAgent => AnsweredFromCorpus

\* FocalAgent.run and app_enhanced.py do as the sentence says
NoToolOutsideChatService ==
    (NoToolMatches /\ ret.op # "ChatService.answer (agent)") =>
        C30_NoToolStillSearchesTheCorpus

(***************************************************************************)
(* Concurrent writers of the answer cache.  Each writer is one call of     *)
(* set_user_answer or set_global_answer: it normalizes the question,       *)
(* executes the INSERT ... ON CONFLICT DO UPDATE and commits.  The writers *)
(* are threads that share the connection of one CacheService (the          *)
(* statements of all of them run in one open transaction), or processes    *)
(* with a connection each (the statement takes the write lock of the       *)
(* database file and holds it until the commit; a writer that waits for    *)
(* the lock longer than the timeout of sqlite3.connect raises              *)
(* OperationalError).  qa_user_cache and qa_global_cache are the committed *)
(* tables; proc.pending is the table as the open transaction sees it.      *)
(***************************************************************************)
\* most concurrent calls
MaxWriters == 2

WriterIds == 1..MaxWriters

\* the answer of each writer, so that the rows tell the writers apart
WriterAnswers == <<AnsSim, AnsNaoSei, AnsSemInfo, AnsNotFound>>

\* the connections that hold the write lock of the database file
NoHolder == {}

ERR_locked == "OperationalError: database is locked"
ERR_unique == "IntegrityError: UNIQUE constraint failed"

WriterInputs(scope) ==
    [WriterIds -> [user : IF scope = "user" THEN Users ELSE {NULL},
                   question : CacheQuestions]]

NewWriter(i, input) ==
    [pc |-> "called", user |-> input.user, question |-> input.question,
     answer |-> WriterAnswers[i], normalized |-> None, error |-> NULL]

\* the table the writers write, when it already holds a row
PriorUserRow(input) ==
    <<[user |-> input.user, normalized |-> Normalized(input.question),
       question |-> input.question, answer |-> AnsSemInfo]>>

PriorGlobalRow(input) ==
    <<[normalized |-> Normalized(input.question), question |-> input.question,
       answer |-> AnsSemInfo]>>

InitCacheRace ==
    /\ \E scope \in {"user", "global"}, connection \in {"shared", "separate"} :
          \E inputs \in WriterInputs(scope), prior \in BOOLEAN :
              /\ qa_user_cache = IF scope = "user" /\ prior THEN PriorUserRow(inputs[1])
                                 ELSE <<>>
              /\ qa_global_cache = IF scope = "global" /\ prior
                                   THEN PriorGlobalRow(inputs[1]) ELSE <<>>
              /\ proc = [op |-> "cache_writers", scope |-> scope,
                         connection |-> connection,
                         writers |-> [i \in WriterIds |-> NewWriter(i, inputs[i])],
                         open |-> FALSE, holder |-> NoHolder,
                         pending |-> IF scope = "user" THEN qa_user_cache
                                     ELSE qa_global_cache,
                         order |-> <<>>]
    /\ cache_op = NoOp
    /\ LatestNone
    /\ NormIdle
    /\ ToolIdle
    /\ OrchIdle
    /\ StoreIdle
    /\ ClarIdle /\ RunIdle /\ EnrIdle /\ CntIdle /\ EmbIdle
    /\ RetIdle /\ HydeIdle

notRace == <<normVars, toolVars, cacheVars, orchVars, storeVars, stageVars, ret, hyde>>

Committed == IF proc.scope = "user" THEN qa_user_cache ELSE qa_global_cache

\* the statement of writer w applied to the table tbl
Upsert(tbl, w) ==
    IF proc.scope = "user"
    THEN set_user_answer(tbl, proc.writers[w].user, proc.writers[w].question,
                         proc.writers[w].answer)
    ELSE set_global_answer(tbl, proc.writers[w].question, proc.writers[w].answer)

\* normalized = self.normalize_question(question)
WriterNormalize(w) ==
    /\ proc.writers[w].pc = "called"
    /\ proc' = [proc EXCEPT !.writers[w].pc = "normalized",
                            !.writers[w].normalized = Normalized(proc.writers[w].question)]
    /\ UNCHANGED <<tableVars, notRace>>

\* self.conn.execute(INSERT ... ON CONFLICT ... DO UPDATE ...)
WriterExecute(w) ==
    /\ proc.writers[w].pc = "normalized"
    /\ proc.connection = "separate" => proc.holder = NoHolder
    /\ proc' = [proc EXCEPT !.writers[w].pc = "executed",
                            !.open = TRUE,
                            !.holder = IF proc.connection = "separate" THEN {w} ELSE NoHolder,
                            !.pending = Upsert(IF proc.open THEN proc.pending
                                               ELSE Committed, w),
                            !.order = Append(proc.order, w)]
    /\ UNCHANGED <<tableVars, notRace>>

\* the write lock is held by another connection for longer than the timeout
WriterBusyTimeout(w) ==
    /\ proc.writers[w].pc = "normalized"
    /\ proc.connection = "separate"
    /\ proc.holder # NoHolder
    /\ w \notin proc.holder
    /\ proc' = [proc EXCEPT !.writers[w].pc = "failed",
                            !.writers[w].error = ERR_locked]
    /\ UNCHANGED <<tableVars, notRace>>

\* self.conn.commit()
WriterCommit(w) ==
    /\ proc.writers[w].pc = "executed"
    /\ proc' = [proc EXCEPT !.writers[w].pc = "done", !.open = FALSE,
                            !.holder = NoHolder]
    /\ IF proc.open
       THEN IF proc.scope = "user"
            THEN qa_user_cache' = proc.pending /\ UNCHANGED qa_global_cache
            ELSE qa_global_cache' = proc.pending /\ UNCHANGED qa_user_cache
       ELSE UNCHANGED tableVars
    /\ UNCHANGED notRace

NextCacheRace ==
    \E w \in WriterIds :
        \/ WriterNormalize(w)
        \/ WriterExecute(w)
        \/ WriterBusyTimeout(w)
        \/ WriterCommit(w)

SpecCacheRace == InitCacheRace /\ [][NextCacheRace]_vars

WritersFinished == \A w \in WriterIds : proc.writers[w].pc \in {"done", "failed"}

\* scope and normalized question of writer w
WriterKey(w) == <<proc.writers[w].user, Normalized(proc.writers[w].question)>>

RowKey(r) == <<IF proc.scope = "user" THEN r.user ELSE NULL, r.normalized>>

\* the writers of the key of w whose statement ran, in the order it ran
Ran_for(w) == SelectSeq(proc.order, LAMBDA v : WriterKey(v) = WriterKey(w))

\* C22: after any interleaving of writers of one scope and one normalized
\* question the cache holds exactly one row for that key, with the answer of
\* the writer whose statement ran last, and no writer has failed on the
\* uniqueness of the key.
C22_ConcurrentWritersCollapseToOneRow ==
    (proc # NoOp /\ proc.op = "cache_writers") =>
        /\ \A w \in WriterIds : proc.writers[w].error # ERR_unique
        /\ WritersFinished =>
              \A w \in WriterIds :
                  Ran_for(w) # <<>> =>
                      LET rows == SelectSeq(Committed, LAMBDA r : RowKey(r) = WriterKey(w))
                          last == Ran_for(w)[Len(Ran_for(w))]
                      IN  /\ Len(rows) = 1
                          /\ rows[1].answer = proc.writers[last].answer

\* two processes wrote the same key of an empty table, the second writer's
\* statement ran first, and both committed
C22_Witness ==
    /\ proc # NoOp
    /\ proc.op = "cache_writers"
    /\ WritersFinished
    /\ proc.connection = "separate"
    /\ WriterKey(1) = WriterKey(2)
    /\ proc.writers[1].question # proc.writers[2].question
    /\ proc.order = <<2, 1>>
    /\ Len(Committed) = 1
    /\ Committed[1].answer = proc.writers[1].answer

\* two threads on one connection: both statements ran before the first commit
SharedTransactionOverlap ==
    /\ proc # NoOp
    /\ proc.op = "cache_writers"
    /\ proc.connection = "shared"
    /\ WriterKey(1) = WriterKey(2)
    /\ proc.writers[1].pc = "executed"
    /\ proc.writers[2].pc = "executed"

(***************************************************************************)
(* Concurrent calls of VectorStore.add_documents, each with one document   *)
(* of one chunk, and searches between their steps.  Every call opens its   *)
(* own connection: the SELECT of the hash reads the committed tables, the  *)
(* first INSERT takes the write lock of the database file, and the rows of *)
(* the call are in proc.pending until its commit.  documentos and chunks   *)
(* are the committed tables, which is all a search on its own connection   *)
(* reads.                                                                  *)
(***************************************************************************)
ERR_embedding == "EmbeddingError"

RaceDocuments ==
    {[hash_sha256 |-> "h1", tipo |-> "ata", chunks |-> <<<<1, 0>>>>],
     [hash_sha256 |-> "h2", tipo |-> "pauta", chunks |-> <<<<1, 1>>>>]}

\* the store before the calls: empty, or holding the first document
RaceStores ==
    {[documentos |-> <<>>, chunks |-> <<>>],
     add_documents(<<>>, <<>>,
                   <<[hash_sha256 |-> "h1", tipo |-> "ata", chunks |-> <<<<1, 0>>>>]>>,
                   IngestOwner)}

InitIngestRace ==
    /\ \E store \in RaceStores, docs \in [WriterIds -> RaceDocuments] :
          /\ documentos = store.documentos
          /\ chunks = store.chunks
          /\ proc = [op |-> "ingesters",
                     writers |-> [i \in WriterIds |->
                                     [pc |-> "called", doc |-> docs[i], error |-> NULL,
                                      outcome |-> NULL]],
                     holder |-> NoHolder,
                     pending |-> store]
    /\ store_op = NoOp
    /\ NormIdle
    /\ ToolIdle
    /\ CacheIdle
    /\ OrchIdle
    /\ ClarIdle /\ RunIdle /\ EnrIdle /\ CntIdle /\ EmbIdle
    /\ RetIdle /\ HydeIdle

notIngestRace ==
    <<normVars, toolVars, tableVars, cacheVars, orchVars, stageVars, ret, hyde>>

StoredHash(docs, hash) == \E i \in 1..Len(docs) : docs[i].hash_sha256 = hash

\* SELECT id FROM documentos WHERE hash_sha256 = ?; `if existing: continue`
IngestSelect(w) ==
    /\ proc.writers[w].pc = "called"
    /\ proc' = [proc EXCEPT !.writers[w].pc =
                    IF StoredHash(documentos, proc.writers[w].doc.hash_sha256)
                    THEN "skipped" ELSE "new"]
    /\ UNCHANGED <<storeVars, notIngestRace>>

\* INSERT INTO documentos: the statement waits for the write lock, and the
\* UNIQUE constraint of hash_sha256 is checked on the committed table
IngestInsertDocument(w) ==
    /\ proc.writers[w].pc = "new"
    /\ proc.holder = NoHolder
    /\ IF StoredHash(documentos, proc.writers[w].doc.hash_sha256)
       THEN proc' = [proc EXCEPT !.writers[w].pc = "failed",
                                 !.writers[w].error = ERR_unique]
       ELSE proc' = [proc EXCEPT
                        !.writers[w].pc = "inserted",
                        !.holder = {w},
                        !.pending =
                            [documentos |->
                                 Append(documentos,
                                        [hash_sha256 |-> proc.writers[w].doc.hash_sha256,
                                         tipo |-> proc.writers[w].doc.tipo,
                                         is_global |-> IngestOwner.is_global,
                                         user_id |-> IngestOwner.user_id]),
                             chunks |-> chunks]]
    /\ UNCHANGED <<storeVars, notIngestRace>>

\* the write lock is held by another call for longer than the timeout
IngestBusyTimeout(w) ==
    /\ proc.writers[w].pc = "new"
    /\ proc.holder # NoHolder
    /\ w \notin proc.holder
    /\ proc' = [proc EXCEPT !.writers[w].pc = "failed",
                            !.writers[w].error = ERR_locked]
    /\ UNCHANGED <<storeVars, notIngestRace>>

\* batch_embed and the INSERTs INTO chunks; an exception of batch_embed
\* leaves the `with` block, which rolls the transaction back
IngestInsertChunks(w, fails) ==
    /\ proc.writers[w].pc = "inserted"
    /\ IF fails
       THEN proc' = [proc EXCEPT !.writers[w].pc = "failed",
                                 !.writers[w].error = ERR_embedding,
                                 !.holder = NoHolder,
                                 !.pending = [documentos |-> documentos,
                                              chunks |-> chunks]]
       ELSE proc' = [proc EXCEPT
                        !.writers[w].pc = "embedded",
                        !.pending.chunks =
                            proc.pending.chunks \o
                            [i \in 1..Len(proc.writers[w].doc.chunks) |->
                                [documento_id |-> Len(proc.pending.documentos),
                                 embedding |-> proc.writers[w].doc.chunks[i]]]]
    /\ UNCHANGED <<storeVars, notIngestRace>>

\* conn.commit()
IngestCommit(w) ==
    /\ proc.writers[w].pc \in {"embedded", "skipped"}
    /\ IF proc.writers[w].pc = "embedded"
       THEN /\ documentos' = proc.pending.documentos
            /\ chunks' = proc.pending.chunks
            /\ proc' = [proc EXCEPT !.writers[w].pc = "done",
                                    !.writers[w].outcome = "added",
                                    !.holder = NoHolder]
       ELSE /\ UNCHANGED <<documentos, chunks>>
            /\ proc' = [proc EXCEPT !.writers[w].pc = "done",
                                    !.writers[w].outcome = "already present"]
    /\ UNCHANGED <<store_op, notIngestRace>>

\* VectorStore.search on a connection of its own, between the steps of the
\* calls
RaceSearch(query_embedding) ==
    /\ proc.op = "ingesters"
    /\ store_op' = [op |-> "search", query_embedding |-> query_embedding,
                    k |-> K_chat, user_id |-> NoUser, filters |-> NoFilters,
                    results |-> search(documentos, chunks, query_embedding, K_chat,
                                       NoUser, "scan_chunks")]
    /\ UNCHANGED <<documentos, chunks, proc, notIngestRace>>

NextIngestRace ==
    \/ \E w \in WriterIds :
          \/ IngestSelect(w)
          \/ IngestInsertDocument(w)
          \/ IngestBusyTimeout(w)
          \/ \E fails \in BOOLEAN : IngestInsertChunks(w, fails)
          \/ IngestCommit(w)
    \/ \E q \in QueryEmbeddings : RaceSearch(q)

SpecIngestRace == InitIngestRace /\ [][NextIngestRace]_vars

Ingesting == proc # NoOp /\ proc.op = "ingesters"

RowsOfHash(hash) == {d \in 1..Len(documentos) : documentos[d].hash_sha256 = hash}

ChunksOfRow(d) == {c \in 1..Len(chunks) : chunks[c].documento_id = d}

\* the store holds one row per hash, each with its chunks once
OneRowPerHash ==
    \A w \in WriterIds :
        LET rows == RowsOfHash(proc.writers[w].doc.hash_sha256)
        IN  /\ Cardinality(rows) <= 1
            /\ \A d \in rows :
                  Cardinality(ChunksOfRow(d)) = Len(proc.writers[w].doc.chunks)

\* no call has failed on the key or on the lock of the database
NoWriterFailedOnTheRace ==
    \A w \in WriterIds : proc.writers[w].error \notin {ERR_unique, ERR_locked}

\* every chunk of the last search is a committed chunk of a committed document
SearchSawCommittedOnly ==
    store_op.op = "search" =>
        \A i \in 1..Len(store_op.results) :
            /\ store_op.results[i] \in 1..Len(chunks)
            /\ HasDoc(store_op.results[i])

\* C23: after any interleaving of calls of add_documents for one content
\* hash the store holds one row for that hash with its chunks once, and no
\* call has received an error: the call that lost finds the document already
\* present.  A search between the steps of an ingest returns only chunks of
\* documents whose ingest is committed.
C23_ConcurrentIngestOfOneHash ==
    Ingesting =>
        /\ OneRowPerHash
        /\ NoWriterFailedOnTheRace
        /\ SearchSawCommittedOnly

\* the store side of the sentence: one row per hash, and searches see
\* committed rows only
IngestRaceKeepsOneRow == Ingesting => (OneRowPerHash /\ SearchSawCommittedOnly)

\* with the rows written, the writers that succeeded and the search
LoserSawAlreadyPresent ==
    /\ Ingesting
    /\ \E v, w \in WriterIds :
          /\ proc.writers[v].outcome = "added"
          /\ proc.writers[w].outcome = "already present"
          /\ proc.writers[v].doc = proc.writers[w].doc

(***************************************************************************)
(* The cache of the HyDEQueryExpander: a dict from _get_cache_key(query,   *)
(* conversation_history) to the HyDEResult of the call that filled it.     *)
(* A message of the history is [role, content]; a result carries the query *)
(* and the last message it was generated for.                              *)
(***************************************************************************)
\* most calls of expand_query on one expander
MaxExpands == 3

\* last_msg.get('content', '')[:50]
HISTORY_KEY_LEN == 50

NoMessage == [role |-> "none", content |-> <<>>]

\* conversation_history[-1], when there is a history
LastMessage(history) == IF history = <<>> THEN NoMessage ELSE history[Len(history)]

\* HyDEQueryExpander._get_cache_key: f"{query}|{history_key}"
get_cache_key(query, history) ==
    LET content == LastMessage(history).content
        history_key == IF history = <<>> THEN <<>>
                       ELSE SubSeq(content, 1, Min(HISTORY_KEY_LEN, Len(content)))
    IN  query \o <<"|">> \o history_key

\* "a" and "a|b"
HQ_a == <<"a">>
HQ_a_bar_b == <<"a", "|", "b">>

\* "b|"
HM_b_bar == <<"b", "|">>

\* two contents of 51 characters that differ in the last one
HM_long_1 == [i \in 1..HISTORY_KEY_LEN |-> "x"] \o <<"1">>
HM_long_2 == [i \in 1..HISTORY_KEY_LEN |-> "x"] \o <<"2">>

HydeQueries == {HQ_a, HQ_a_bar_b}

\* None (or []), or a history that ends with the message
HydeHistories ==
    {<<>>} \cup {<<[role |-> "user", content |-> c]>> : c \in {HM_b_bar, HM_long_1, HM_long_2}}

InitHyde ==
    /\ hyde = [op |-> "HyDEQueryExpander", cache |-> {}, n |-> 0,
               last |-> [op |-> "none"]]
    /\ NormIdle
    /\ ToolIdle
    /\ CacheIdle
    /\ OrchIdle
    /\ StoreIdle
    /\ ClarIdle /\ RunIdle /\ EnrIdle /\ CntIdle /\ EmbIdle
    /\ RetIdle /\ ProcIdle

notHyde == <<normVars, toolVars, tableVars, cacheVars, orchVars, storeVars, stageVars,
             ret, proc>>

\* the calls of a miss: _analyze_context, _generate_hypothesis, and the
\* embeddings of the query and of the hypothesis
HydeCalls ==
    <<"_analyze_context", "_generate_hypothesis", "generate_embedding",
      "generate_embedding">>

\* HyDEQueryExpander.expand_query; the analysis and the hypothesis fall back
\* when the provider fails, generate_embedding raises
expand_query(cache, query, history, use_cache, embedding_fails) ==
    LET cache_key == get_cache_key(query, history)
        result == [original_query |-> query, last_message |-> LastMessage(history)]
    IN  IF use_cache /\ \E e \in cache : e.key = cache_key
        THEN [kind |-> "returned", hit |-> TRUE, calls |-> <<>>,
              result |-> (CHOOSE e \in cache : e.key = cache_key).result,
              cache |-> cache]
        ELSE IF embedding_fails
        THEN [kind |-> "raised", hit |-> FALSE, calls |-> SubSeq(HydeCalls, 1, 3),
              result |-> [original_query |-> <<>>, last_message |-> NoMessage],
              cache |-> cache]
        ELSE [kind |-> "returned", hit |-> FALSE, calls |-> HydeCalls, result |-> result,
              cache |-> IF use_cache
                        THEN {e \in cache : e.key # cache_key}
                             \cup {[key |-> cache_key, result |-> result]}
                        ELSE cache]

ExpandQuery(query, history, use_cache, embedding_fails) ==
    /\ hyde.op = "HyDEQueryExpander"
    /\ hyde.n < MaxExpands
    /\ LET out == expand_query(hyde.cache, query, history, use_cache, embedding_fails)
       IN  hyde' = [hyde EXCEPT
                       !.cache = out.cache,
                       !.n = hyde.n + 1,
                       !.last = [op |-> "expand_query", query |-> query,
                                 history |-> history, use_cache |-> use_cache,
                                 kind |-> out.kind, hit |-> out.hit, calls |-> out.calls,
                                 result |-> out.result]]
    /\ UNCHANGED notHyde

\* HyDEQueryExpander.clear_cache
HydeClearCache ==
    /\ hyde.op = "HyDEQueryExpander"
    /\ hyde.n < MaxExpands
    /\ hyde.cache # {}
    /\ hyde' = [hyde EXCEPT !.cache = {}, !.n = hyde.n + 1, !.last = [op |-> "clear_cache"]]
    /\ UNCHANGED notHyde

NextHyde ==
    \/ \E query \in HydeQueries, history \in HydeHistories, use_cache \in BOOLEAN,
          embedding_fails \in BOOLEAN :
          ExpandQuery(query, history, use_cache, embedding_fails)
    \/ HydeClearCache

SpecHyde == InitHyde /\ [][NextHyde]_vars

\* the results cached for the question and the last message of the call
CachedFor(cache, query, history) ==
    {e.result : e \in {c \in cache : /\ c.result.original_query = query
                                     /\ c.result.last_message = LastMessage(history)}}

\* C25: a call of expand_query with use_cache=True whose question and last
\* history message were cached by an earlier call returns that result
\* without a generation or embedding call; a result is returned from the
\* cache only to a call with the question and the last history message it
\* was made for; a call with use_cache=False neither reads nor writes the
\* cache.
C25_HydeCachePerQuestionAndLastMessage ==
    [][ (hyde.op = "HyDEQueryExpander" /\ hyde'.last.op = "expand_query") =>
          LET call == hyde'.last
          IN  /\ (call.use_cache /\ CachedFor(hyde.cache, call.query, call.history) # {}) =>
                    /\ call.result \in CachedFor(hyde.cache, call.query, call.history)
                    /\ call.calls = <<>>
              /\ call.hit =>
                    /\ call.result.original_query = call.query
                    /\ call.result.last_message = LastMessage(call.history)
              /\ ~call.use_cache => (~call.hit /\ hyde'.cache = hyde.cache) ]_vars

\* the sentence without its middle part: repeated calls are served from the
\* cache, and use_cache=False leaves the cache alone
HydeCacheHitsAndBypass ==
    [][ (hyde.op = "HyDEQueryExpander" /\ hyde'.last.op = "expand_query") =>
          LET call == hyde'.last
          IN  /\ (call.use_cache /\ CachedFor(hyde.cache, call.query, call.history) # {}) =>
                    call.calls = <<>>
              /\ ~call.use_cache => (~call.hit /\ hyde'.cache = hyde.cache) ]_vars

(***************************************************************************)
(* C27: questions that say which meeting they mean                         *)
(***************************************************************************)
\* the question says "última" or "próxima", with or without the accent
NamesLastOrNext(question) ==
    AnyWordIn(<<SW_ultima_acc, SW_ultima, SW_proxima_acc, SW_proxima>>, LowerText(question))

\* the question carries a number or a date
CarriesNumber(question) == \E i \in 1..Len(question) : question[i] \in Digits

\* C27: for a question that contains "última", "próxima", a number or a
\* date, check_for_ambiguity never returns a clarification of kind
\* 'temporal', whatever the result list.
C27_DisambiguatedNeverTemporal ==
    (/\ clar.op = "check_for_ambiguity"
     /\ (NamesLastOrNext(clar.user_query) \/ CarriesNumber(clar.user_query))) =>
        clar.out.ambiguity_type # "temporal"

\* the same for the questions that say "última" or "próxima" only
LastOrNextNeverTemporal ==
    (clar.op = "check_for_ambiguity" /\ NamesLastOrNext(clar.user_query)) =>
        clar.out.ambiguity_type # "temporal"

\* "Qual a pauta da última reunião?" was checked against results of two
\* documents
LastOrNextChecked ==
    /\ clar.op = "check_for_ambiguity"
    /\ clar.user_query = AQ_qual_a_pauta_da_ultima
    /\ Cardinality(Titles(clar.search_results)) > 1

\* "Qual a pauta 12?" got the temporal clarification
NumberedAskedWhichMeeting ==
    /\ clar.op = "check_for_ambiguity"
    /\ clar.user_query = AQ_qual_a_pauta_12
    /\ clar.out.ambiguity_type = "temporal"

(***************************************************************************)
(* C29: what the orchestrators write to the Answer Cache                   *)
(***************************************************************************)
\* the clarification texts and the texts of a failed search or generation
NotGeneratedTexts ==
    {out.text : out \in {o \in ChatServiceOutcomes \cup AppOutcomes \cup AppEnhancedOutcomes :
                            o.kind \notin {"generated", "raised"}}}

CachedAnswers ==
    {qa_user_cache[i].answer : i \in 1..Len(qa_user_cache)} \cup
    {qa_global_cache[i].answer : i \in 1..Len(qa_global_cache)}

\* C29: only an answer produced by the generation step is written to the
\* Answer Cache: no row holds a clarification text or the text of a failed
\* search or generation, and no request is answered with such a text from
\* the cache.
C29_OnlyGeneratedAnswersCached ==
    /\ CachedAnswers \cap NotGeneratedTexts = {}
    /\ req # NoReq =>
          (req.cache_hit # "none" => req.response \notin NotGeneratedTexts)

\* the text of a failed request of app_enhanced.py and the "no results" text
\* of app.py are never written
ProcessingErrorAndNoResultsNotCached ==
    CachedAnswers \cap {TXT_erro_processar \o ErrText, TXT_no_results} = {}

\* a request was answered from the cache with a clarification text
ClarificationReplayed ==
    /\ req # NoReq
    /\ req.cache_hit # "none"
    /\ req.response \in {TXT_clarification, TXT_clarification_app}

\* a request was answered from the cache with the text of a failed generation
ErrorReplayed ==
    /\ req # NoReq
    /\ req.cache_hit # "none"
    /\ req.response = TXT_erro_gerar \o ErrText

(***************************************************************************)
(* Specification SpecShared: chat requests of several users served by the  *)
(* three orchestrators over one CacheService and one VectorStore that      *)
(* holds a global document and a private document of alice.  Each request  *)
(* runs the cache check, the retrieval step and the cache write of its     *)
(* orchestrator; the language model answers with the text of one of the    *)
(* chunks it was given.                                                    *)
(***************************************************************************)
SC_global == [documento_id |-> 1, conteudo |-> RC_texto_do_item, embedding |-> <<1, 0>>]
SC_private == [documento_id |-> 2, conteudo |-> RC_ata_da_sessao, embedding |-> <<1, 1>>]

\* the stores: with and without the private document of alice
SharedStores ==
    {[documentos |-> <<RD_global_pauta, RD_alice_ata>>, chunks |-> <<SC_global, SC_private>>],
     [documentos |-> <<RD_global_pauta, RD_alice_ata>>, chunks |-> <<SC_global>>],
     [documentos |-> <<RD_global_pauta>>, chunks |-> <<SC_global>>]}

SharedPrompts == {AQ_qual_a_pauta, AQ_QUAL_A_ATA}

SharedEmbedder == [plain |-> <<1, 0>>, boosted |-> <<1, 0>>, fails |-> FALSE]

InitShared ==
    /\ TablesEmpty
    /\ req = NoReq
    /\ cache_op = NoOp
    /\ LatestNone
    /\ \E s \in SharedStores : documentos = s.documentos /\ chunks = s.chunks
    /\ store_op = NoOp
    /\ NormIdle
    /\ ToolIdle
    /\ StagesIdle

\* what the generation step can return for the chunks of its context
AnswersFrom(retrieved) ==
    IF retrieved = <<>> THEN {[kind |-> "generated", text |-> AnsSim]}
    ELSE {[kind |-> "generated", text |-> chunks[retrieved[i]].conteudo] :
             i \in 1..Len(retrieved)}

\* ChatService.answer(user_message, user_id)
SharedChatService(user_id, user_message, agent) ==
    LET retrieval == ChatService_retrieval(documentos, chunks, user_message, agent,
                                           SharedEmbedder, "scan_chunks")
    IN  \E out \in AnswersFrom(retrieval.chunks) :
           /\ Serve("ChatService.answer", user_id, user_message,
                    ChatService_cache_check(user_id, user_message), out,
                    ChatService_stores(out))
           /\ UNCHANGED notOrch

\* a chat turn of app.py
SharedApp(prompt) ==
    LET retrieval == app_retrieval(documentos, chunks, prompt, prompt, SharedEmbedder,
                                   "scan_chunks")
    IN  \E out \in (IF retrieval.chunks = <<>>
                    THEN {[kind |-> "no_results", text |-> TXT_no_results]}
                    ELSE AnswersFrom(retrieval.chunks)) :
           /\ Serve("app.py", ANON, prompt, app_cache_check(ANON, prompt), out,
                    app_stores(out))
           /\ UNCHANGED notOrch

\* a chat turn of app_enhanced.py by the user who is logged in
SharedAppEnhanced(user_id, prompt) ==
    LET retrieval == app_enhanced_retrieval(documentos, chunks, user_id, prompt,
                                            SharedEmbedder, "scan_chunks")
    IN  \E out \in AnswersFrom(retrieval.chunks) :
           /\ Serve("app_enhanced.py", user_id, prompt,
                    app_enhanced_cache_check(user_id, prompt), out,
                    app_enhanced_stores(out))
           /\ UNCHANGED notOrch

NextShared ==
    \/ \E u \in Users, q \in SharedPrompts, agent \in BOOLEAN : SharedChatService(u, q, agent)
    \/ \E q \in SharedPrompts : SharedApp(q)
    \/ \E u \in Users, q \in SharedPrompts : SharedAppEnhanced(u, q)

SpecShared == InitShared /\ [][NextShared]_vars

\* the texts of the chunks of private documents of users other than user_id
PrivateTextsOfOthers(user_id) ==
    {chunks[i].conteudo :
        i \in {j \in 1..Len(chunks) :
                 LET d == documentos[chunks[j].documento_id]
                 IN  d.is_global = 0 /\ d.user_id # user_id}}

\* the texts of the chunks user_id may read
ReadableTexts(user_id) ==
    {chunks[i].conteudo :
        i \in {j \in 1..Len(chunks) :
                 LET d == documentos[chunks[j].documento_id]
                 IN  d.is_global = 1 \/ d.user_id = user_id}}

\* C28: over one shared Answer Cache and Document Store, an answer that was
\* generated from a private chunk of one user is never returned as a cache
\* hit to a request of another user.
C28_NoPrivateAnswerFromCacheToOthers ==
    (req # NoReq /\ req.cache_hit # "none") =>
        req.response \notin (PrivateTextsOfOthers(req.user) \ ReadableTexts(req.user))

\* the same for the requests served by app_enhanced.py, which reads the
\* user's own rows only
AppEnhancedHitsAreOwn ==
    (req # NoReq /\ req.cache_hit # "none" /\ req.orch = "app_enhanced.py") =>
        req.response \notin (PrivateTextsOfOthers(req.user) \ ReadableTexts(req.user))

\* no request retrieves a chunk its user may not read: a miss never answers
\* with the text of a private chunk of another user
MissesReadOwnChunks ==
    (req # NoReq /\ req.cache_hit = "none") =>
        req.response \notin (PrivateTextsOfOthers(req.user) \ ReadableTexts(req.user))

\* alice got her own private text back from her rows of the cache
OwnPrivateAnswerReplayed ==
    /\ req # NoReq
    /\ req.orch = "app_enhanced.py"
    /\ req.user = "alice"
    /\ req.cache_hit = "user"
    /\ req.response = RC_ata_da_sessao

====
